---- MODULE Spec2Model ----
(***************************************************************************)
(* A model of the PDF text-extraction service: the extraction orchestrator *)
(* PdfProcessor::extract_text (src/src/services/pdf_processor.rs) and the  *)
(* OCR fallback engine OcrService (src/src/services/ocr_service.rs).       *)
(*                                                                         *)
(* Texts are sequences of Unicode code points; error messages are          *)
(* sequences of phrases, so that format!() is concatenation and            *)
(* str::contains is membership of a phrase.                                *)
(*                                                                         *)
(* Spec is one extract_text call.  DecoderSpec and RoundTripSpec apply     *)
(* extract_title and extract_author to raw and to encoded strings, and     *)
(* ClassifierSpec applies is_likely_scanned_pdf to marker counts.          *)
(* OcrSpec follows one OCR run step by step, ConcurrentSpec runs calls     *)
(* side by side on one file system, ErrorSpec applies the functions of     *)
(* AppError, ConfigSpec applies Config::from_env to the texts of the       *)
(* environment, and HandlerSpec serves requests through the two            *)
(* extraction handlers and REQUEST_SEMAPHORE.  MetricsSpec passes requests *)
(* through rate_limit_middleware while get_rate_limit_metrics reads the    *)
(* counters, AuthSpec puts auth_middleware in front of the handlers, and   *)
(* UnstableSpec is Spec on a system where the OCR engine may appear or     *)
(* disappear between two availability checks.                              *)
(***************************************************************************)
EXTENDS Integers, Sequences, FiniteSets, TLC

VARIABLES
    pc,         \* position of the call inside extract_text
    file,       \* the ProcessedFile handed to extract_text
    tesseract,  \* whether `tesseract --version` succeeds on this system
    direct,     \* what pdf_extract::extract_text returned
    extracted,  \* the local extracted_text
    result,     \* what extract_text returned
    new_calls,  \* number of OcrService::new() calls made by this call
    ocr_log,    \* one entry per extract_text_from_pdf invocation
    source,     \* which engine produced the text held in extracted / result
    doc,        \* what Document::load_mem makes of file.content
    arg,        \* the argument of the helper function under check
    ret,        \* what the helper function returned
    events,     \* the checks made and the commands launched by one OCR run
    temps,      \* the temporary files and directories that exist
    dir_iter,   \* what is left of the read_dir iterator (entries)
    page_count, \* the local page_count of perform_ocr_on_pdf
    extracted_text, \* the local extracted_text of perform_ocr_on_pdf
    fs,         \* the temporary paths of the file system and what they hold
    calls,      \* the extraction calls that run side by side
    permits,    \* the permits REQUEST_SEMAPHORE has available
    reqs,       \* the requests the handlers are serving
    metrics     \* the counters TOTAL_REQUESTS and REJECTED_REQUESTS

\* the variables of the step-by-step specifications
stepvars == <<events, temps, dir_iter, page_count, extracted_text, fs, calls, permits, reqs,
              metrics>>

vars == <<pc, file, tesseract, direct, extracted, result, new_calls, ocr_log, source,
          doc, arg, ret, stepvars>>

----------------------------------------------------------------------------
(* Bounds of the model *)

\* at most this many entries in the image directory of one OCR run
MaxImages == 2

\* at most this many bytes in a raw Title or Author string
MaxRaw == 4

\* at most this many page images in the directory of a step-by-step OCR run
MaxPages == 3

\* at most this many characters in a title that is encoded and decoded
MaxStr == 3

\* the image and text marker counts of a classified buffer go up to this
MaxCount == 12

(* Program constants *)

\* cleaned_text.len() < 100
MinTextLen == 100
\* alphabetic count < 50
MinAlphaCount == 50
\* image_count > 10
ManyImages == 10

----------------------------------------------------------------------------
(* Strings *)

Rep(c, n) == [i \in 1..n |-> c]

\* char::is_whitespace (White_Space code points)
IsWhitespace(c) ==
    c \in (9..13) \cup {32, 133, 160, 5760, 8232, 8233, 8239, 8287, 12288} \cup (8192..8202)

\* char::is_alphabetic, on the Basic Latin and Latin-1 letters
IsAlphabetic(c) ==
    c \in (65..90) \cup (97..122) \cup {170, 181, 186} \cup (192..214) \cup (216..246) \cup (248..255)

\* char::len_utf8
Utf8Len(c) == IF c < 128 THEN 1 ELSE IF c < 2048 THEN 2 ELSE IF c < 65536 THEN 3 ELSE 4

RECURSIVE TrimStart(_)
TrimStart(s) == IF s # <<>> /\ IsWhitespace(Head(s)) THEN TrimStart(Tail(s)) ELSE s

RECURSIVE TrimEnd(_)
TrimEnd(s) ==
    IF s # <<>> /\ IsWhitespace(s[Len(s)]) THEN TrimEnd(SubSeq(s, 1, Len(s) - 1)) ELSE s

\* str::trim
Trim(s) == TrimEnd(TrimStart(s))

\* the number of characters of s whose UTF-8 encoding takes w bytes
CharsOfWidth(s, w) == Cardinality({i \in 1..Len(s) : Utf8Len(s[i]) = w})

\* str::len: the length in bytes of the UTF-8 encoding
ByteLen(s) ==
    CharsOfWidth(s, 1) + 2 * CharsOfWidth(s, 2) + 3 * CharsOfWidth(s, 3) + 4 * CharsOfWidth(s, 4)

\* str::chars().count()
CharCount(s) == Len(s)

\* chars().filter(|c| c.is_alphabetic()).count()
AlphaCount(s) == Cardinality({i \in 1..Len(s) : IsAlphabetic(s[i])})

\* str::contains on a message made of phrases
Contains(msg, phrase) == \E i \in 1..Len(msg) : msg[i] = phrase

----------------------------------------------------------------------------
(* AppError *)

AppError(kind, message) == [kind |-> kind, message |-> message]

\* the #[error("...")] Display of each variant
DisplayPrefix(kind) ==
    CASE kind = "InvalidFile" -> <<"Invalid file format: ">>
      [] kind = "ProcessingError" -> <<"PDF processing failed: ">>
      [] kind = "OcrError" -> <<"OCR processing failed: ">>
      [] kind = "ConfigError" -> <<"Configuration error: ">>
      [] kind = "FileTooLarge" -> <<"File too large: ">>
      [] OTHER -> <<>>

\* AppError::to_string
ErrToString(e) == DisplayPrefix(e.kind) \o e.message

Ok(v) == [ok |-> TRUE, value |-> v]
Err(e) == [ok |-> FALSE, error |-> e]

----------------------------------------------------------------------------
(* ProcessedFile *)

\* the declared MIME type: absent, application/pdf, or something else
MimeTypes == {"none", "application/pdf", "text/plain"}

\* byte lengths of the uploaded buffers: 2 KB, 150 KB and 11 MB
Sizes == {2048, 153600, 11534336}

\* What the classifier counts in the bytes (a scanning-app signature, image
\* markers, text markers): a text document with one /Font and one BT..ET
\* pair, a text document with one image, fifteen images and no text, and a
\* text document written by a scanning app.
Markers ==
    {[has_scan_app |-> FALSE, image_count |-> 0, text_count |-> 3],
     [has_scan_app |-> FALSE, image_count |-> 1, text_count |-> 3],
     [has_scan_app |-> FALSE, image_count |-> 15, text_count |-> 0],
     [has_scan_app |-> TRUE, image_count |-> 0, text_count |-> 3]}

Contents == [sig_pdf : BOOLEAN, len : Sizes, markers : Markers]

\* every combination of file name, declared type and content
AllFiles == [name_pdf : BOOLEAN, mime_type : MimeTypes, content : Contents]

\* the files of the extraction runs: named *.pdf with no declared type,
\* starting with %PDF with no declared type, declared application/pdf,
\* declared text/plain, and neither declared, named nor signed as a PDF
Files ==
    {f \in AllFiles :
        <<f.mime_type, f.name_pdf, f.content.sig_pdf>> \in
            {<<"none", TRUE, FALSE>>, <<"none", FALSE, TRUE>>,
             <<"application/pdf", FALSE, FALSE>>, <<"text/plain", TRUE, TRUE>>,
             <<"none", FALSE, FALSE>>}}

\* ProcessedFile::is_pdf
is_pdf(f) ==
    IF f.mime_type # "none"
    THEN f.mime_type = "application/pdf"
    ELSE f.name_pdf \/ f.content.sig_pdf

----------------------------------------------------------------------------
(* Config *)

\* an environment variable: unset, set to something that does not parse,
\* or set to a number
EnvValues ==
    {[set |-> FALSE, parses |-> FALSE, value |-> 0],
     [set |-> TRUE, parses |-> FALSE, value |-> 0],
     [set |-> TRUE, parses |-> TRUE, value |-> 0],
     [set |-> TRUE, parses |-> TRUE, value |-> 1]}

\* the environment of the extraction runs: the size limit takes every
\* value, the other settings are unset or set to 0
Envs ==
    [SERVER_PORT : {v \in EnvValues : v.value = 0 /\ v.set = v.parses},
     MAX_FILE_SIZE_MB : EnvValues,
     MAX_CONCURRENT_REQUESTS : {v \in EnvValues : v.value = 0 /\ v.set = v.parses},
     REQUEST_TIMEOUT_SECONDS : {v \in EnvValues : v.value = 0 /\ v.set = v.parses},
     WORKER_THREADS : {v \in EnvValues : v.value = 0 /\ v.set = v.parses}]

\* parse_env_var with the value of a text that does not parse taken as 0
parse_env_var_or_zero(val, default) ==
    IF val.set THEN val.value ELSE default

\* Config::parse_env_var
parse_env_var(val, default) ==
    IF val.set /\ val.parses THEN val.value ELSE default

\* Config::validate
validate(cfg) ==
    IF cfg.server_port = 0 THEN Err(<<"SERVER_PORT must be greater than 0">>)
    ELSE IF cfg.max_file_size_mb = 0 THEN Err(<<"MAX_FILE_SIZE_MB must be greater than 0">>)
    ELSE IF cfg.max_concurrent_requests = 0
         THEN Err(<<"MAX_CONCURRENT_REQUESTS must be greater than 0">>)
    ELSE IF cfg.request_timeout_seconds = 0
         THEN Err(<<"REQUEST_TIMEOUT_SECONDS must be greater than 0">>)
    ELSE IF cfg.worker_threads = 0 THEN Err(<<"WORKER_THREADS must be greater than 0">>)
    ELSE Ok(cfg)

\* Config::from_env
Config_from_env(env) ==
    validate([server_port |-> parse_env_var(env.SERVER_PORT, 8080),
              max_file_size_mb |-> parse_env_var(env.MAX_FILE_SIZE_MB, 10),
              max_concurrent_requests |-> parse_env_var(env.MAX_CONCURRENT_REQUESTS, 100),
              request_timeout_seconds |-> parse_env_var(env.REQUEST_TIMEOUT_SECONDS, 30),
              worker_threads |-> parse_env_var(env.WORKER_THREADS, 4)])

----------------------------------------------------------------------------
(* OcrService *)

\* is_likely_scanned_pdf with the ratio test made inclusive
is_likely_scanned_pdf_inclusive(content) ==
    LET has_scan_app == content.markers.has_scan_app
        image_count == content.markers.image_count
        text_count == content.markers.text_count
    IN  \/ has_scan_app
        \/ (image_count > 0 /\ text_count = 0)
        \/ (image_count > ManyImages /\ image_count >= text_count)
        \/ (image_count >= text_count * 2)

\* OcrService::is_likely_scanned_pdf, on the marker counts of the bytes
is_likely_scanned_pdf(content) ==
    LET has_scan_app == content.markers.has_scan_app
        image_count == content.markers.image_count
        text_count == content.markers.text_count
    IN  \/ has_scan_app
        \/ (image_count > 0 /\ text_count = 0)
        \/ (image_count > ManyImages /\ image_count >= text_count)
        \/ (image_count > text_count * 2)

\* OcrService::new without the availability check
OcrService_new_unchecked(available) == Ok("OcrService")

\* OcrService::new
OcrService_new(available) ==
    IF ~available
    THEN Err(AppError("OcrError", <<"Tesseract OCR not available on this system">>))
    ELSE Ok("OcrService")

\* What tesseract does on one image: whether the process could be spawned,
\* whether it exited successfully, and its standard output.
TessFailures ==
    {[spawned |-> FALSE, success |-> FALSE, stdout |-> <<>>],
     [spawned |-> TRUE, success |-> FALSE, stdout |-> <<>>]}

\* recognised page texts: "ab\n", and a hundred letters and a newline
PageTexts == {<<97, 98, 10>>, Rep(97, 100) \o <<10>>}

TessOutcomes ==
    TessFailures \cup {[spawned |-> TRUE, success |-> TRUE, stdout |-> t] : t \in PageTexts}

\* the entries of the image directory: a file extension and what tesseract
\* does on the file
DirEntries ==
    {[ext |-> "png", tess |-> o] : o \in TessOutcomes}
        \cup {[ext |-> "txt", tess |-> [spawned |-> FALSE, success |-> FALSE, stdout |-> <<>>]]}

RECURSIVE SeqsUpTo(_, _)
SeqsUpTo(S, n) ==
    IF n = 0 THEN {<<>>}
    ELSE LET shorter == SeqsUpTo(S, n - 1)
         IN  shorter \cup {Append(s, x) : s \in {t \in shorter : Len(t) = n - 1}, x \in S}

\* What the system does during one perform_ocr_on_pdf: the first file
\* operation that fails (if any), whether pdfimages and convert can be
\* launched, and the directory listing read_dir yields afterwards.
OcrEnvs ==
    {[io |-> f, pdfimages |-> TRUE, convert |-> TRUE, entries |-> <<>>] :
        f \in {"temp_file", "write", "temp_dir", "read_dir"}}
    \cup {[io |-> "none", pdfimages |-> FALSE, convert |-> FALSE, entries |-> <<>>]}
    \cup {[io |-> "none", pdfimages |-> p, convert |-> TRUE, entries |-> e] :
            p \in BOOLEAN, e \in SeqsUpTo(DirEntries, MaxImages)}

is_image(entry) == entry.ext \in {"png", "jpg", "jpeg"}

RECURSIVE ocr_pages(_)
\* the loop over the directory entries: the text accumulated in
\* extracted_text
ocr_pages(entries) ==
    IF entries = <<>> THEN <<>>
    ELSE LET e == Head(entries)
         IN  (IF is_image(e) /\ e.tess.spawned /\ e.tess.success
              THEN e.tess.stdout \o <<10, 10>>
              ELSE <<>>) \o ocr_pages(Tail(entries))

\* page_count after the loop
count_pages(entries) == Cardinality({i \in 1..Len(entries) : is_image(entries[i])})

OcrErr(message) == Err(AppError("OcrError", message))

\* perform_ocr_on_pdf returning the accumulated text without trimming it
perform_ocr_on_pdf_untrimmed(env) ==
    IF env.io = "temp_file" THEN OcrErr(<<"Failed to create temp file: ", "io error">>)
    ELSE IF env.io = "write" THEN OcrErr(<<"Failed to write PDF to temp file: ", "io error">>)
    ELSE IF env.io = "temp_dir" THEN OcrErr(<<"Failed to create temp directory: ", "io error">>)
    ELSE IF ~env.pdfimages /\ ~env.convert
         THEN OcrErr(<<"Neither pdfimages nor ImageMagick are available to extract images from PDF">>)
    ELSE IF env.io = "read_dir" THEN OcrErr(<<"Failed to read temp directory: ", "io error">>)
    ELSE IF count_pages(env.entries) = 0
         THEN OcrErr(<<"No images could be extracted from the PDF">>)
    ELSE Ok(ocr_pages(env.entries))

\* OcrService::perform_ocr_on_pdf
perform_ocr_on_pdf(env) ==
    IF env.io = "temp_file" THEN OcrErr(<<"Failed to create temp file: ", "io error">>)
    ELSE IF env.io = "write" THEN OcrErr(<<"Failed to write PDF to temp file: ", "io error">>)
    ELSE IF env.io = "temp_dir" THEN OcrErr(<<"Failed to create temp directory: ", "io error">>)
    ELSE IF ~env.pdfimages /\ ~env.convert
         THEN OcrErr(<<"Neither pdfimages nor ImageMagick are available to extract images from PDF">>)
    ELSE IF env.io = "read_dir" THEN OcrErr(<<"Failed to read temp directory: ", "io error">>)
    ELSE IF count_pages(env.entries) = 0
         THEN OcrErr(<<"No images could be extracted from the PDF">>)
    ELSE Ok(Trim(ocr_pages(env.entries)))

\* OcrService::extract_text_from_pdf; available is the availability check
\* made inside it, env what perform_ocr_on_pdf meets
extract_text_from_pdf(content, available, env) ==
    IF ~is_likely_scanned_pdf(content)
    THEN OcrErr(<<"PDF ", "does not appear to contain scanned content", " that requires OCR">>)
    ELSE IF ~available
    THEN OcrErr(<<"This PDF appears to be scanned and requires OCR, but ",
                  "Tesseract is not installed",
                  ". Please install Tesseract OCR to process scanned PDFs.">>)
    ELSE LET ocr_result == perform_ocr_on_pdf(env)
         IN  IF ocr_result.ok THEN Ok(ocr_result.value) ELSE Ok(<<>>)

\* the record kept of one extract_text_from_pdf invocation: whether
\* perform_ocr_on_pdf ran, what it returned, the text it had accumulated
\* before trimming, and what extract_text_from_pdf returned
OcrLogEntry(content, available, env) ==
    LET ran == is_likely_scanned_pdf(content) /\ available
        performed == perform_ocr_on_pdf(env)
    IN  [available |-> available,
         performed |-> ran,
         perform |-> IF ran THEN performed ELSE Err("not run"),
         raw |-> IF ran /\ performed.ok THEN ocr_pages(env.entries) ELSE <<>>,
         returned |-> extract_text_from_pdf(content, available, env)]

----------------------------------------------------------------------------
(* Metadata decoding *)

RECURSIVE decode_utf16_be(_)
\* decode_utf16_be: code units that are no scalar value (surrogates) and
\* null characters are dropped, a trailing odd byte is ignored
decode_utf16_be(bytes) ==
    IF Len(bytes) < 2 THEN <<>>
    ELSE LET code_point == bytes[1] * 256 + bytes[2]
         IN  (IF code_point \notin (55296..57343) /\ code_point # 0
              THEN <<code_point>> ELSE <<>>)
             \o decode_utf16_be(SubSeq(bytes, 3, Len(bytes)))

RECURSIVE decode_utf16_le(_)
\* decode_utf16_le
decode_utf16_le(bytes) ==
    IF Len(bytes) < 2 THEN <<>>
    ELSE LET code_point == bytes[2] * 256 + bytes[1]
         IN  (IF code_point \notin (55296..57343) /\ code_point # 0
              THEN <<code_point>> ELSE <<>>)
             \o decode_utf16_le(SubSeq(bytes, 3, Len(bytes)))

\* looks_like_utf16
looks_like_utf16(bytes) ==
    IF Len(bytes) < 2 THEN FALSE
    ELSE Cardinality({i \in 1..Len(bytes) : bytes[i] = 0}) > Len(bytes) \div 3

\* the number of bytes of the UTF-8 sequence a lead byte announces (0: the
\* byte cannot start a sequence)
Utf8Width(b) ==
    IF b < 128 THEN 1
    ELSE IF b \in 194..223 THEN 2
    ELSE IF b \in 224..239 THEN 3
    ELSE IF b \in 240..244 THEN 4
    ELSE 0

\* whether b1 may follow the lead byte b0
Utf8SecondOk(b0, b1) ==
    CASE b0 = 224 -> b1 \in 160..191
      [] b0 = 237 -> b1 \in 128..159
      [] b0 = 240 -> b1 \in 144..191
      [] b0 = 244 -> b1 \in 128..143
      [] OTHER -> b1 \in 128..191

\* the length of the longest prefix of bytes that starts a well-formed
\* UTF-8 sequence (at least 1)
Utf8PrefixLen(bytes) ==
    LET w == Utf8Width(bytes[1])
    IN  IF w < 2 \/ Len(bytes) < 2 \/ ~Utf8SecondOk(bytes[1], bytes[2]) THEN 1
        ELSE IF w < 3 \/ Len(bytes) < 3 \/ bytes[3] \notin 128..191 THEN 2
        ELSE IF w < 4 \/ Len(bytes) < 4 \/ bytes[4] \notin 128..191 THEN 3
        ELSE 4

\* the scalar value of a well-formed sequence of w bytes
Utf8Value(bytes, w) ==
    CASE w = 1 -> bytes[1]
      [] w = 2 -> (bytes[1] - 192) * 64 + (bytes[2] - 128)
      [] w = 3 -> (bytes[1] - 224) * 4096 + (bytes[2] - 128) * 64 + (bytes[3] - 128)
      [] OTHER -> (bytes[1] - 240) * 262144 + (bytes[2] - 128) * 4096
                    + (bytes[3] - 128) * 64 + (bytes[4] - 128)

RECURSIVE from_utf8_lossy(_)
\* String::from_utf8_lossy: every maximal ill-formed part becomes U+FFFD
from_utf8_lossy(bytes) ==
    IF bytes = <<>> THEN <<>>
    ELSE LET w == Utf8Width(bytes[1])
             n == Utf8PrefixLen(bytes)
         IN  (IF w # 0 /\ n = w THEN <<Utf8Value(bytes, w)>> ELSE <<65533>>)
             \o from_utf8_lossy(SubSeq(bytes, n + 1, Len(bytes)))

\* the encoding selection of extract_title and extract_author
decode_pdf_string(bytes) ==
    IF Len(bytes) >= 2 /\ bytes[1] = 254 /\ bytes[2] = 255
    THEN decode_utf16_be(SubSeq(bytes, 3, Len(bytes)))
    ELSE IF Len(bytes) >= 2 /\ bytes[1] = 255 /\ bytes[2] = 254
    THEN decode_utf16_le(SubSeq(bytes, 3, Len(bytes)))
    ELSE IF looks_like_utf16(bytes) THEN decode_utf16_be(bytes)
    ELSE from_utf8_lossy(bytes)

None == [some |-> FALSE, value |-> <<>>]
Some(v) == [some |-> TRUE, value |-> v]

\* What lopdf's Document::load_mem makes of the bytes: an error, or a
\* document with its page tree and the Title and Author of its Info
\* dictionary.
ParseOutcomes ==
    {Err("structure"),
     Ok([pages |-> 0, title |-> None, author |-> None]),
     Ok([pages |-> 3, title |-> Some(<<254, 255, 0, 72, 0, 105>>), author |-> Some(<<72, 105>>)]),
     Ok([pages |-> 1, title |-> Some(<<32>>), author |-> None])}

\* decode_info_string without the trimming
decode_info_string_untrimmed(raw) ==
    IF ~raw.some THEN None
    ELSE LET decoded == decode_pdf_string(raw.value)
         IN  IF decoded # <<>> THEN Some(decoded) ELSE None

\* the tail of extract_title and extract_author: decode, trim, and None
\* when nothing is left
decode_info_string(raw) ==
    IF ~raw.some THEN None
    ELSE LET trimmed == Trim(decode_pdf_string(raw.value))
         IN  IF trimmed # <<>> THEN Some(trimmed) ELSE None

\* PdfProcessor::extract_title
extract_title(parsed) == IF parsed.ok THEN decode_info_string(parsed.value.title) ELSE None

\* PdfProcessor::extract_author
extract_author(parsed) == IF parsed.ok THEN decode_info_string(parsed.value.author) ELSE None

\* estimate_pages without the lower bound of the size-based estimate
estimate_pages_unbounded(parsed, content) ==
    IF parsed.ok THEN parsed.value.pages
    ELSE LET size_kb == content.len \div 1024
         IN  size_kb \div 50

\* PdfProcessor::estimate_pages
estimate_pages(parsed, content) ==
    IF parsed.ok THEN parsed.value.pages
    ELSE LET size_kb == content.len \div 1024
         IN  IF size_kb \div 50 > 1 THEN size_kb \div 50 ELSE 1

----------------------------------------------------------------------------
(* PdfMetadata and ExtractionResult *)

\* PdfMetadata::new
PdfMetadata_new(file_size_bytes) ==
    [title |-> None, author |-> None, creation_date |-> None, modification_date |-> None,
     file_size_bytes |-> file_size_bytes, ocr_used |-> FALSE]

\* PdfMetadata::with_ocr
with_ocr(m) == [m EXCEPT !.ocr_used = TRUE]

\* PdfMetadata::with_title
with_title(m, title) == [m EXCEPT !.title = title]

\* PdfMetadata::with_author
with_author(m, author) == [m EXCEPT !.author = author]

\* Ok(ExtractionResult { .. }); processing_time_ms is left out
Success(text, pages, metadata) ==
    [tag |-> "ok", text |-> text, pages |-> pages, metadata |-> metadata]

\* Err(AppError)
Failure(error) == [tag |-> "err", error |-> error]

NoResult == [tag |-> "none"]

----------------------------------------------------------------------------
(* PdfProcessor::extract_text *)

\* ProcessedFile::new sets size to the length of the content
file_size(f) == f.content.len

\* texts pdf_extract may return: nothing, white space, a padded "ab", sixty
\* two-byte letters, a hundred digits, 50 letters and 50 digits, 50 letters
\* and 49 digits, 49 letters and 51 digits, 120 padded letters
DirectTexts ==
    {<<>>,
     <<32, 10>>,
     <<32, 97, 98, 32>>,
     Rep(233, 60),
     Rep(49, 100),
     Rep(97, 50) \o Rep(49, 50),
     Rep(97, 50) \o Rep(49, 49),
     Rep(97, 49) \o Rep(49, 51),
     <<10>> \o Rep(97, 120) \o <<32>>}

\* messages of pdf_extract's errors
DirectErrors == {<<"PDF error: ", "invalid file trailer">>}

NotRun == [state |-> "not_run"]

DirectOutcomes ==
    {[state |-> "ok", text |-> t] : t \in DirectTexts}
        \cup {[state |-> "err", error |-> e] : e \in DirectErrors}

ProcessingError(message) == AppError("ProcessingError", message)

\* use_ocr with both comparisons made inclusive
use_ocr_inclusive(cleaned_text) ==
    ByteLen(cleaned_text) <= MinTextLen \/ AlphaCount(cleaned_text) <= MinAlphaCount

\* the test that sends a non-empty text to the OCR enhancement
use_ocr(cleaned_text) ==
    ByteLen(cleaned_text) < MinTextLen \/ AlphaCount(cleaned_text) < MinAlphaCount

\* ocr_is_longer with the comparison made inclusive
ocr_is_longer_or_equal(ocr_text, cleaned_text) ==
    ByteLen(ocr_text) >= ByteLen(cleaned_text)

\* line 156: the OCR text replaces the direct text when its str::len is the
\* greater one
ocr_is_longer(ocr_text, cleaned_text) ==
    ByteLen(ocr_text) > ByteLen(cleaned_text)

\* what the availability check inside extract_text_from_pdf may find: the
\* same as OcrService::new found when tool presence is stable
SecondCheck(stable) == IF stable THEN {tesseract} ELSE BOOLEAN

\* no OCR run is observed step by step
NoOcrRun ==
    /\ events = <<>>
    /\ temps = {}
    /\ dir_iter = <<>>
    /\ page_count = 0
    /\ extracted_text = <<>>

\* no call runs beside another
NoCalls ==
    /\ fs = {}
    /\ calls = <<>>

\* static TOTAL_REQUESTS and REJECTED_REQUESTS: AtomicU64::new(0)
NoMetrics == metrics = [total |-> 0, rejected |-> 0]

\* no request is served
NoRequests ==
    /\ permits = 0
    /\ reqs = <<>>
    /\ NoMetrics

NoSteps == NoOcrRun /\ NoCalls /\ NoRequests

Init ==
    /\ pc = "start"
    /\ file \in Files
    /\ tesseract \in BOOLEAN
    /\ direct = NotRun
    /\ extracted = <<>>
    /\ result = NoResult
    /\ new_calls = 0
    /\ ocr_log = <<>>
    /\ source = "none"
    /\ doc = None
    /\ arg = None
    /\ ret = None
    /\ NoSteps

\* lines 35-40: the file must be a PDF
ValidateFile ==
    /\ pc = "start"
    /\ IF ~is_pdf(file)
       THEN /\ result' = Failure(AppError("InvalidFile", <<"File is not a valid PDF">>))
            /\ pc' = "done"
       ELSE /\ pc' = "config"
            /\ UNCHANGED result
    /\ UNCHANGED <<file, tesseract, direct, extracted, new_calls, ocr_log, source, doc, arg, ret, stepvars>>

\* lines 42-51: the size limit of the configuration
CheckSize ==
    /\ pc = "config"
    /\ \E env \in Envs :
        LET config == Config_from_env(env)
        IN  IF ~config.ok
            THEN /\ result' = Failure(AppError("ConfigError",
                                  <<"Failed to load config: ">> \o config.error))
                 /\ pc' = "done"
            ELSE LET max_size_bytes == config.value.max_file_size_mb * 1024 * 1024
                 IN  IF file.content.len > max_size_bytes
                     THEN /\ result' = Failure(AppError("FileTooLarge",
                                  <<ToString(file.content.len \div (1024 * 1024)),
                                    "MB exceeds limit of ",
                                    ToString(config.value.max_file_size_mb), "MB">>))
                          /\ pc' = "done"
                     ELSE /\ pc' = "temp_file"
                          /\ UNCHANGED result
    /\ UNCHANGED <<file, tesseract, direct, extracted, new_calls, ocr_log, source, doc, arg, ret, stepvars>>

\* lines 53-67: the structure is parsed for a warning only, then the
\* content is written to a temporary file; doc keeps what load_mem made of
\* the content, which the later load_mem calls on the same bytes find again
WriteTempFile ==
    /\ pc = "temp_file"
    /\ \E parsed \in ParseOutcomes : doc' = Some(parsed)
    /\ \E io \in {"ok", "create", "write"} :
        CASE io = "create" ->
                /\ result' = Failure(ProcessingError(
                                <<"Failed to create temporary file: ", "io error">>))
                /\ pc' = "done"
          [] io = "write" ->
                /\ result' = Failure(ProcessingError(
                                <<"Failed to write PDF to temporary file: ", "io error">>))
                /\ pc' = "done"
          [] OTHER ->
                /\ pc' = "direct"
                /\ UNCHANGED result
    /\ UNCHANGED <<file, tesseract, direct, extracted, new_calls, ocr_log, source, arg, ret, stepvars>>

\* lines 70-76: pdf_extract::extract_text
DirectExtract ==
    /\ pc = "direct"
    /\ \E out \in DirectOutcomes :
        /\ direct' = out
        /\ IF out.state = "ok"
           THEN /\ extracted' = out.text
                /\ source' = "direct"
                /\ pc' = "judge"
           ELSE /\ pc' = "fallback"
                /\ UNCHANGED <<extracted, source>>
    /\ UNCHANGED <<file, tesseract, result, new_calls, ocr_log, doc, arg, ret, stepvars>>

\* lines 75-92: direct extraction failed, OCR supplies the text
FallbackOcr(stable) ==
    /\ pc = "fallback"
    /\ new_calls' = new_calls + 1
    /\ LET ocr_service == OcrService_new(tesseract)
       IN  IF ~ocr_service.ok
           THEN /\ result' = Failure(ocr_service.error)
                /\ pc' = "done"
                /\ UNCHANGED <<extracted, ocr_log, source>>
           ELSE \E again \in SecondCheck(stable), env \in OcrEnvs :
                LET ocr == extract_text_from_pdf(file.content, again, env)
                IN  /\ ocr_log' = Append(ocr_log, OcrLogEntry(file.content, again, env))
                    /\ IF ocr.ok
                       THEN /\ extracted' = ocr.value
                            /\ source' = "ocr"
                            /\ pc' = "judge"
                            /\ UNCHANGED result
                       ELSE /\ result' = Failure(ProcessingError(
                                    <<"PDF extraction failed: ">> \o direct.error
                                    \o <<", OCR failed: ">> \o ErrToString(ocr.error)))
                            /\ pc' = "done"
                            /\ UNCHANGED <<extracted, source>>
    /\ UNCHANGED <<file, tesseract, direct, doc, arg, ret, stepvars>>

\* lines 95-144: the extracted text is empty after trimming
EmptyPath(stable) ==
    /\ pc = "judge"
    /\ Trim(extracted) = <<>>
    /\ new_calls' = new_calls + 1
    /\ pc' = "done"
    /\ LET ocr_service == OcrService_new(tesseract)
       IN  IF ~ocr_service.ok
           THEN /\ result' = Failure(ocr_service.error)
                /\ UNCHANGED <<ocr_log, source>>
           ELSE \E again \in SecondCheck(stable), env \in OcrEnvs :
                LET parsed == doc.value
                    ocr == extract_text_from_pdf(file.content, again, env)
                    err_msg == ErrToString(ocr.error)
                IN  /\ ocr_log' = Append(ocr_log, OcrLogEntry(file.content, again, env))
                    /\ IF ocr.ok
                       THEN /\ result' = Success(ocr.value,
                                            estimate_pages(parsed, file.content),
                                            with_ocr(PdfMetadata_new(file_size(file))))
                            /\ source' = "ocr"
                       ELSE IF Contains(err_msg, "does not appear to contain scanned content")
                       THEN /\ result' = Success(<<>>,
                                            estimate_pages(parsed, file.content),
                                            with_author(
                                                with_title(PdfMetadata_new(file_size(file)),
                                                           extract_title(parsed)),
                                                extract_author(parsed)))
                            /\ source' = "none"
                       ELSE IF Contains(err_msg, "Tesseract is not installed")
                       THEN /\ result' = Failure(ProcessingError(
                                    <<"This PDF appears to be scanned and requires OCR. ">>
                                    \o err_msg))
                            /\ UNCHANGED source
                       ELSE /\ result' = Failure(ProcessingError(
                                    <<"No text found and OCR failed: ">> \o err_msg))
                            /\ UNCHANGED source
    /\ UNCHANGED <<file, tesseract, direct, extracted, doc, arg, ret, stepvars>>

\* lines 146-167 and 172-187: the text is short, OCR may replace it
EnhancementPath(stable) ==
    /\ pc = "judge"
    /\ Trim(extracted) # <<>>
    /\ use_ocr(Trim(extracted))
    /\ new_calls' = new_calls + 1
    /\ pc' = "done"
    /\ LET cleaned_text == Trim(extracted)
           ocr_service == OcrService_new(tesseract)
       IN  IF ~ocr_service.ok
           THEN /\ result' = Failure(ocr_service.error)
                /\ UNCHANGED <<ocr_log, source>>
           ELSE \E again \in SecondCheck(stable), env \in OcrEnvs :
                LET parsed == doc.value
                    ocr == extract_text_from_pdf(file.content, again, env)
                    better == ocr.ok /\ ocr_is_longer(ocr.value, cleaned_text)
                    final_text == IF better THEN ocr.value ELSE cleaned_text
                IN  /\ ocr_log' = Append(ocr_log, OcrLogEntry(file.content, again, env))
                    /\ source' = IF better THEN "ocr" ELSE source
                    /\ result' = Success(final_text,
                                         estimate_pages(parsed, file.content),
                                         with_author(
                                             with_title(PdfMetadata_new(file_size(file)),
                                                        extract_title(parsed)),
                                             extract_author(parsed)))
    /\ UNCHANGED <<file, tesseract, direct, extracted, doc, arg, ret, stepvars>>

\* lines 168-187: the text is long enough and is returned as it is
Accepted ==
    /\ pc = "judge"
    /\ Trim(extracted) # <<>>
    /\ ~use_ocr(Trim(extracted))
    /\ pc' = "done"
    /\ LET parsed == doc.value
       IN
        result' = Success(Trim(extracted),
                          estimate_pages(parsed, file.content),
                          with_author(
                              with_title(PdfMetadata_new(file_size(file)),
                                         extract_title(parsed)),
                              extract_author(parsed)))
    /\ UNCHANGED <<file, tesseract, direct, extracted, new_calls, ocr_log, source, doc, arg, ret, stepvars>>

Next ==
    \/ ValidateFile
    \/ CheckSize
    \/ WriteTempFile
    \/ DirectExtract
    \/ FallbackOcr(TRUE)
    \/ EmptyPath(TRUE)
    \/ EnhancementPath(TRUE)
    \/ Accepted

Spec == Init /\ [][Next]_vars

\* the same call when the answer of is_tesseract_available may differ between
\* OcrService::new (ocr_service.rs line 13) and extract_text_from_pdf (line 40)
UnstableNext ==
    \/ ValidateFile
    \/ CheckSize
    \/ WriteTempFile
    \/ DirectExtract
    \/ FallbackOcr(FALSE)
    \/ EmptyPath(FALSE)
    \/ EnhancementPath(FALSE)
    \/ Accepted

UnstableSpec == Init /\ [][UnstableNext]_vars

----------------------------------------------------------------------------
(* extract_title and extract_author on raw byte strings *)

callvars == <<file, tesseract, direct, extracted, result, new_calls, ocr_log, source, doc,
              stepvars>>

\* no extract_text call is under way
NoExtract ==
    /\ file = None
    /\ tesseract = FALSE
    /\ direct = NotRun
    /\ extracted = <<>>
    /\ result = NoResult
    /\ new_calls = 0
    /\ ocr_log = <<>>
    /\ source = "none"
    /\ doc = None

\* no extract_text call is under way and nothing is observed step by step
NoCall == NoExtract /\ NoSteps

\* bytes of the raw strings: NUL, space, "a", the halves of the byte order
\* marks, a surrogate's high byte, and the UTF-8 encoding C2 A0 of U+00A0
RawBytes == {0, 32, 97, 160, 194, 216, 254, 255}

RawStrings == SeqsUpTo(RawBytes, MaxRaw)

\* a document whose Info dictionary has the Title and the Author given
InfoDocument(title, author) == Ok([pages |-> 1, title |-> title, author |-> author])

\* arg is the raw string of the Info dictionary, or None when the field is
\* missing
DecoderInit ==
    /\ pc = "start"
    /\ arg \in {None} \cup {Some(b) : b \in RawStrings}
    /\ ret = None
    /\ NoCall

\* extract_title on a document whose Title is arg
ExtractTitle ==
    /\ pc = "start"
    /\ ret' = extract_title(InfoDocument(arg, None))
    /\ pc' = "title"
    /\ UNCHANGED <<arg, callvars>>

\* extract_author on a document whose Author is arg
ExtractAuthor ==
    /\ pc = "start"
    /\ ret' = extract_author(InfoDocument(None, arg))
    /\ pc' = "author"
    /\ UNCHANGED <<arg, callvars>>

DecoderNext ==
    \/ ExtractTitle
    \/ ExtractAuthor

DecoderSpec == DecoderInit /\ [][DecoderNext]_vars

----------------------------------------------------------------------------
(* extract_title on encoded strings *)

\* characters of the titles: space, "a", U+00E9 and U+1F600
Chars == {32, 97, 233, 128512}

Strings == SeqsUpTo(Chars, MaxStr)

\* the UTF-16 code units of a character
Utf16Units(c) ==
    IF c < 65536 THEN <<c>>
    ELSE <<55296 + ((c - 65536) \div 1024), 56320 + ((c - 65536) % 1024)>>

RECURSIVE EncodeUtf16BE(_)
\* the UTF-16BE bytes of a string
EncodeUtf16BE(str) ==
    IF str = <<>> THEN <<>>
    ELSE LET u == Utf16Units(Head(str))
         IN  [i \in 1..(2 * Len(u)) |->
                 IF i % 2 = 1 THEN u[(i + 1) \div 2] \div 256 ELSE u[i \div 2] % 256]
             \o EncodeUtf16BE(Tail(str))

RECURSIVE EncodeUtf16LE(_)
\* the UTF-16LE bytes of a string
EncodeUtf16LE(str) ==
    IF str = <<>> THEN <<>>
    ELSE LET u == Utf16Units(Head(str))
         IN  [i \in 1..(2 * Len(u)) |->
                 IF i % 2 = 1 THEN u[(i + 1) \div 2] % 256 ELSE u[i \div 2] \div 256]
             \o EncodeUtf16LE(Tail(str))

\* the UTF-8 bytes of a character
Utf8Bytes(c) ==
    CASE c < 128 -> <<c>>
      [] c >= 128 /\ c < 2048 -> <<192 + (c \div 64), 128 + (c % 64)>>
      [] c >= 2048 /\ c < 65536 ->
            <<224 + (c \div 4096), 128 + ((c \div 64) % 64), 128 + (c % 64)>>
      [] OTHER ->
            <<240 + (c \div 262144), 128 + ((c \div 4096) % 64),
              128 + ((c \div 64) % 64), 128 + (c % 64)>>

RECURSIVE EncodeUtf8(_)
\* the UTF-8 bytes of a string
EncodeUtf8(str) ==
    IF str = <<>> THEN <<>> ELSE Utf8Bytes(Head(str)) \o EncodeUtf8(Tail(str))

\* arg is the title that a PDF producer writes into the Info dictionary
RoundTripInit ==
    /\ pc = "start"
    /\ arg \in Strings
    /\ ret = None
    /\ NoCall

\* extract_title on a Title written as UTF-16BE after the mark FE FF
DecodeUtf16BE ==
    /\ pc = "start"
    /\ ret' = extract_title(InfoDocument(Some(<<254, 255>> \o EncodeUtf16BE(arg)), None))
    /\ pc' = "utf16be"
    /\ UNCHANGED <<arg, callvars>>

\* extract_title on a Title written as UTF-16LE after the mark FF FE
DecodeUtf16LE ==
    /\ pc = "start"
    /\ ret' = extract_title(InfoDocument(Some(<<255, 254>> \o EncodeUtf16LE(arg)), None))
    /\ pc' = "utf16le"
    /\ UNCHANGED <<arg, callvars>>

\* extract_title on a Title written as UTF-8
DecodeUtf8 ==
    /\ pc = "start"
    /\ ret' = extract_title(InfoDocument(Some(EncodeUtf8(arg)), None))
    /\ pc' = "utf8"
    /\ UNCHANGED <<arg, callvars>>

RoundTripNext ==
    \/ DecodeUtf16BE
    \/ DecodeUtf16LE
    \/ DecodeUtf8

RoundTripSpec == RoundTripInit /\ [][RoundTripNext]_vars

----------------------------------------------------------------------------
(* is_likely_scanned_pdf on marker counts *)

\* arg is what the classifier finds in the buffer: whether a scanning-app
\* signature occurs, and the numbers of image and text markers
ClassifierInit ==
    /\ pc = "start"
    /\ arg \in [has_scan_app : BOOLEAN, image_count : 0..MaxCount, text_count : 0..MaxCount]
    /\ ret = None
    /\ NoCall

Classify ==
    /\ pc = "start"
    /\ ret' = is_likely_scanned_pdf([markers |-> arg])
    /\ pc' = "classified"
    /\ UNCHANGED <<arg, callvars>>

ClassifierNext == Classify

ClassifierSpec == ClassifierInit /\ [][ClassifierNext]_vars

----------------------------------------------------------------------------
(* One OCR run of extract_text, step by step *)

\* what tesseract does on the image of page p: it cannot be launched, it
\* exits with a failure, it recognises nothing, it recognises the digit p
TessKinds == {"no_spawn", "failure", "nothing", "text"}

TessOn(p, kind) ==
    [spawned |-> kind # "no_spawn",
     success |-> kind \in {"nothing", "text"},
     stdout |-> IF kind = "text" THEN <<48 + p, 10>> ELSE <<>>]

\* the directory entry of the image of page p (page-00p.png)
PageEntry(p, kind) == [ext |-> "png", tess |-> TessOn(p, kind), page |-> p]

\* an entry that is no image
OtherEntry ==
    [ext |-> "txt", tess |-> [spawned |-> FALSE, success |-> FALSE, stdout |-> <<>>], page |-> 0]

\* the orders in which read_dir may list k entries: the order is that of the
\* file system, any permutation
Perms(k) == {f \in [1..k -> 1..k] : \A i, j \in 1..k : f[i] = f[j] => i = j}

\* the listings of a directory with the images of pages 1..k
PageListings(k) ==
    {[i \in 1..k |-> PageEntry(order[i], kinds[order[i]])] :
        order \in Perms(k), kinds \in [1..k -> TessKinds]}

\* the listings read_dir may yield: the page images in any order, with or
\* without an entry that is no image in front
Listings ==
    LET pages == UNION {PageListings(k) : k \in 0..MaxPages}
    IN  pages \cup {<<OtherEntry>> \o l : l \in pages}

\* a buffer of fifteen image markers and no text, and a text document
ScannedMarkers == [has_scan_app |-> FALSE, image_count |-> 15, text_count |-> 0]

\* a run where everything works: one page is recognised
NominalRun ==
    [temp_file |-> "none", needs_ocr |-> TRUE, tesseract |-> TRUE,
     content |-> [sig_pdf |-> TRUE, len |-> 2048, markers |-> ScannedMarkers],
     io |-> "none", pdfimages |-> TRUE, convert |-> TRUE,
     listing |-> <<PageEntry(1, "text")>>]

\* What the system does during the run: whether extract_text's temporary
\* file can be created and written, whether the text judgement asks for
\* OCR, whether tesseract is installed, the content, the first file
\* operation of perform_ocr_on_pdf that fails, whether pdfimages and
\* convert can be launched, and what read_dir lists.
OcrRuns ==
    {[NominalRun EXCEPT !.temp_file = f, !.needs_ocr = n] :
        f \in {"none", "create", "write"}, n \in BOOLEAN}
    \cup {[NominalRun EXCEPT !.tesseract = t, !.content.markers = m] :
            t \in BOOLEAN, m \in Markers \cup {ScannedMarkers}}
    \cup {[NominalRun EXCEPT !.io = f, !.pdfimages = p, !.convert = c] :
            f \in {"temp_file", "write", "temp_dir", "read_dir"}, p \in BOOLEAN, c \in BOOLEAN}
    \cup {[NominalRun EXCEPT !.pdfimages = p, !.convert = c, !.listing = l] :
            p \in BOOLEAN, c \in BOOLEAN, l \in Listings}

\* an entry of events
Event(cmd, launched, page) == [cmd |-> cmd, launched |-> launched, page |-> page]

\* the temporary file of extract_text, and the temporary file and the
\* temporary directory of perform_ocr_on_pdf
TheTempFile == <<"temp_file", 0>>
ThePdfFile == <<"pdf_file", 0>>
TheTempDir == <<"temp_dir", 0>>

\* the image files of the temporary directory
Images(listing) == {<<"temp_dir", i>> : i \in 1..Len(listing)}

\* the locals of perform_ocr_on_pdf that own a temporary resource, with what
\* the directory holds
OcrScope == {ThePdfFile, TheTempDir} \cup {<<"temp_dir", i>> : i \in 1..(MaxPages + 1)}

\* Drop without the removal of the directory
DropFilesOnly(held, scope) == held \ (scope \ {TheTempDir})

\* the locals of scope go out of scope: NamedTempFile and TempDir remove
\* their file and their directory, with what it holds, when dropped
Drop(held, scope) == held \ scope

OcrInit ==
    /\ pc = "start"
    /\ arg \in OcrRuns
    /\ ret = None
    /\ NoCall

\* what no step of the run changes
ocrfixed == <<arg, file, tesseract, direct, extracted, result, new_calls, ocr_log, source, doc,
              fs, calls, permits, reqs, metrics>>

ocrlocals == <<dir_iter, page_count, extracted_text>>

\* pdf_processor.rs lines 58-61: NamedTempFile::new() of extract_text
TempFileNew ==
    /\ pc = "start"
    /\ IF arg.temp_file = "create"
       THEN /\ ret' = Err(ProcessingError(<<"Failed to create temporary file: ", "io error">>))
            /\ pc' = "returned"
            /\ UNCHANGED temps
       ELSE /\ temps' = temps \cup {TheTempFile}
            /\ pc' = "write_all"
            /\ UNCHANGED ret
    /\ UNCHANGED <<events, ocrlocals, ocrfixed>>

\* pdf_processor.rs lines 63-67: the content is written to the file
TempFileWrite ==
    /\ pc = "write_all"
    /\ IF arg.temp_file = "write"
       THEN /\ ret' = Err(ProcessingError(
                        <<"Failed to write PDF to temporary file: ", "io error">>))
            /\ temps' = Drop(temps, {TheTempFile})
            /\ pc' = "returned"
       ELSE /\ pc' = "direct"
            /\ UNCHANGED <<ret, temps>>
    /\ UNCHANGED <<events, ocrlocals, ocrfixed>>

\* pdf_processor.rs lines 70-170: direct extraction and the judgement of
\* its text either return without OCR or go to one of the OCR call sites
DirectJudged ==
    /\ pc = "direct"
    /\ IF arg.needs_ocr
       THEN /\ pc' = "new"
            /\ UNCHANGED temps
       ELSE /\ temps' = Drop(temps, {TheTempFile})
            /\ pc' = "returned"
    /\ UNCHANGED <<ret, events, ocrlocals, ocrfixed>>

\* OcrService::new: tesseract --version; its error leaves extract_text
\* through the ? of the call site
OcrNew ==
    /\ pc = "new"
    /\ events' = Append(events, Event("tesseract --version", arg.tesseract, 0))
    /\ LET ocr_service == OcrService_new(arg.tesseract)
       IN  IF ~ocr_service.ok
           THEN /\ ret' = ocr_service
                /\ temps' = Drop(temps, {TheTempFile})
                /\ pc' = "returned"
           ELSE /\ pc' = "classify"
                /\ UNCHANGED <<ret, temps>>
    /\ UNCHANGED <<ocrlocals, ocrfixed>>

\* extract_text_from_pdf lines 26-35: the classifier
CheckScanned ==
    /\ pc = "classify"
    /\ events' = Append(events, Event("is_likely_scanned_pdf", TRUE, 0))
    /\ IF ~is_likely_scanned_pdf(arg.content)
       THEN /\ ret' = OcrErr(<<"PDF ", "does not appear to contain scanned content",
                                " that requires OCR">>)
            /\ pc' = "ocr_returned"
       ELSE /\ pc' = "available"
            /\ UNCHANGED ret
    /\ UNCHANGED <<temps, ocrlocals, ocrfixed>>

\* extract_text_from_pdf lines 39-45: tesseract --version once more
CheckAvailable ==
    /\ pc = "available"
    /\ events' = Append(events, Event("tesseract --version", arg.tesseract, 0))
    /\ IF ~arg.tesseract
       THEN /\ ret' = OcrErr(<<"This PDF appears to be scanned and requires OCR, but ",
                                "Tesseract is not installed",
                                ". Please install Tesseract OCR to process scanned PDFs.">>)
            /\ pc' = "ocr_returned"
       ELSE /\ pc' = "pdf_file"
            /\ UNCHANGED ret
    /\ UNCHANGED <<temps, ocrlocals, ocrfixed>>

\* perform_ocr_on_pdf lines 101-104: NamedTempFile::new()
PdfFileNew ==
    /\ pc = "pdf_file"
    /\ IF arg.io = "temp_file"
       THEN /\ ret' = OcrErr(<<"Failed to create temp file: ", "io error">>)
            /\ pc' = "performed"
            /\ UNCHANGED temps
       ELSE /\ temps' = temps \cup {ThePdfFile}
            /\ pc' = "pdf_write"
            /\ UNCHANGED ret
    /\ UNCHANGED <<events, ocrlocals, ocrfixed>>

\* perform_ocr_on_pdf lines 106-109: write_all
PdfFileWrite ==
    /\ pc = "pdf_write"
    /\ IF arg.io = "write"
       THEN /\ ret' = OcrErr(<<"Failed to write PDF to temp file: ", "io error">>)
            /\ temps' = Drop(temps, OcrScope)
            /\ pc' = "performed"
       ELSE /\ pc' = "temp_dir"
            /\ UNCHANGED <<ret, temps>>
    /\ UNCHANGED <<events, ocrlocals, ocrfixed>>

\* perform_ocr_on_pdf lines 114-117: TempDir::new()
TempDirNew ==
    /\ pc = "temp_dir"
    /\ IF arg.io = "temp_dir"
       THEN /\ ret' = OcrErr(<<"Failed to create temp directory: ", "io error">>)
            /\ temps' = Drop(temps, OcrScope)
            /\ pc' = "performed"
       ELSE /\ temps' = temps \cup {TheTempDir}
            /\ pc' = "pdfimages"
            /\ UNCHANGED ret
    /\ UNCHANGED <<events, ocrlocals, ocrfixed>>

\* RunPdfimages going on to convert even when pdfimages was launched
RunPdfimagesThenConvert ==
    /\ pc = "pdfimages"
    /\ events' = Append(events, Event("pdfimages", arg.pdfimages, 0))
    /\ temps' = IF arg.pdfimages THEN temps \cup Images(arg.listing) ELSE temps
    /\ pc' = "convert"
    /\ UNCHANGED <<ret, ocrlocals, ocrfixed>>

\* perform_ocr_on_pdf lines 119-128: pdfimages writes the images into the
\* directory when it can be launched
RunPdfimages ==
    /\ pc = "pdfimages"
    /\ events' = Append(events, Event("pdfimages", arg.pdfimages, 0))
    /\ IF arg.pdfimages
       THEN /\ temps' = temps \cup Images(arg.listing)
            /\ pc' = "read_dir"
       ELSE /\ pc' = "convert"
            /\ UNCHANGED temps
    /\ UNCHANGED <<ret, ocrlocals, ocrfixed>>

\* perform_ocr_on_pdf lines 129-143: convert -density 150
RunConvert ==
    /\ pc = "convert"
    /\ events' = Append(events, Event("convert", arg.convert, 0))
    /\ IF ~arg.convert
       THEN /\ ret' = OcrErr(<<"Neither pdfimages nor ImageMagick are available to extract images from PDF">>)
            /\ temps' = Drop(temps, OcrScope)
            /\ pc' = "performed"
       ELSE /\ temps' = temps \cup Images(arg.listing)
            /\ pc' = "read_dir"
            /\ UNCHANGED ret
    /\ UNCHANGED <<ocrlocals, ocrfixed>>

\* perform_ocr_on_pdf lines 146-153: read_dir
ReadDir ==
    /\ pc = "read_dir"
    /\ IF arg.io = "read_dir"
       THEN /\ ret' = OcrErr(<<"Failed to read temp directory: ", "io error">>)
            /\ temps' = Drop(temps, OcrScope)
            /\ pc' = "performed"
            /\ UNCHANGED ocrlocals
       ELSE /\ dir_iter' = arg.listing
            /\ page_count' = 0
            /\ extracted_text' = <<>>
            /\ pc' = "loop"
            /\ UNCHANGED <<ret, temps>>
    /\ UNCHANGED <<events, ocrfixed>>

\* NextEntry returning the error of a page that tesseract fails on
NextEntryFailing ==
    /\ pc = "loop"
    /\ dir_iter # <<>>
    /\ LET entry == Head(dir_iter)
           failed == is_image(entry) /\ ~(entry.tess.spawned /\ entry.tess.success)
       IN  /\ dir_iter' = Tail(dir_iter)
           /\ pc' = IF failed THEN "performed" ELSE pc
           /\ ret' = IF failed THEN OcrErr(<<"Tesseract failed on a page">>) ELSE ret
           /\ temps' = IF failed THEN Drop(temps, OcrScope) ELSE temps
           /\ IF is_image(entry)
              THEN /\ page_count' = page_count + 1
                   /\ events' = Append(events, Event("tesseract", entry.tess.spawned, entry.page))
                   /\ extracted_text' =
                        IF entry.tess.spawned /\ entry.tess.success
                        THEN extracted_text \o entry.tess.stdout \o <<10, 10>>
                        ELSE extracted_text
              ELSE UNCHANGED <<page_count, events, extracted_text>>
    /\ UNCHANGED ocrfixed

\* perform_ocr_on_pdf lines 154-178: one turn of the loop
NextEntry ==
    /\ pc = "loop"
    /\ dir_iter # <<>>
    /\ LET entry == Head(dir_iter)
       IN  /\ dir_iter' = Tail(dir_iter)
           /\ IF is_image(entry)
              THEN /\ page_count' = page_count + 1
                   /\ events' = Append(events, Event("tesseract", entry.tess.spawned, entry.page))
                   /\ extracted_text' =
                        IF entry.tess.spawned /\ entry.tess.success
                        THEN extracted_text \o entry.tess.stdout \o <<10, 10>>
                        ELSE extracted_text
              ELSE UNCHANGED <<page_count, events, extracted_text>>
    /\ UNCHANGED <<pc, ret, temps, ocrfixed>>

\* perform_ocr_on_pdf lines 180-188: the loop is over
FinishOcr ==
    /\ pc = "loop"
    /\ dir_iter = <<>>
    /\ ret' = IF page_count = 0
              THEN OcrErr(<<"No images could be extracted from the PDF">>)
              ELSE Ok(Trim(extracted_text))
    /\ temps' = Drop(temps, OcrScope)
    /\ pc' = "performed"
    /\ UNCHANGED <<events, ocrlocals, ocrfixed>>

\* extract_text_from_pdf lines 48-62: an error of perform_ocr_on_pdf
\* becomes the empty text
PerformReturned ==
    /\ pc = "performed"
    /\ ret' = IF ret.ok THEN Ok(ret.value) ELSE Ok(<<>>)
    /\ pc' = "ocr_returned"
    /\ UNCHANGED <<events, temps, ocrlocals, ocrfixed>>

\* extract_text returns after the OCR call: temp_file goes out of scope
CallerReturns ==
    /\ pc = "ocr_returned"
    /\ temps' = Drop(temps, {TheTempFile})
    /\ pc' = "returned"
    /\ UNCHANGED <<ret, events, ocrlocals, ocrfixed>>

OcrNext ==
    \/ TempFileNew
    \/ TempFileWrite
    \/ DirectJudged
    \/ OcrNew
    \/ CheckScanned
    \/ CheckAvailable
    \/ PdfFileNew
    \/ PdfFileWrite
    \/ TempDirNew
    \/ RunPdfimages
    \/ RunConvert
    \/ ReadDir
    \/ NextEntry
    \/ FinishOcr
    \/ PerformReturned
    \/ CallerReturns

OcrSpec == OcrInit /\ [][OcrNext]_vars

----------------------------------------------------------------------------
(* AppError::error_code, AppError::status_code and the helper constructors *)

\* the variants without a field
UnitVariants ==
    {"InvalidApiKey", "RateLimitExceeded", "Timeout", "InvalidContentType", "MissingFile"}

\* the variants with a message (ServiceUnavailable: a service) field
MessageVariants ==
    {"InvalidFile", "ProcessingError", "OcrError", "Internal", "ValidationError",
     "ConfigError", "ServiceUnavailable", "DatabaseError"}

\* enum AppError
Variants == UnitVariants \cup MessageVariants \cup {"FileTooLarge"}

\* the values of AppError: FileTooLarge { size: 20, limit: 30 } stands for
\* the values of this variant
AppErrors ==
    {AppError(kind, <<>>) : kind \in UnitVariants}
        \cup {AppError(kind, message) : kind \in MessageVariants, message \in Strings}
        \cup {AppError("FileTooLarge", <<20, 30>>)}

\* error_code with the arm of OcrError returning the code of ProcessingError
error_code_merged(e) ==
    CASE e.kind = "InvalidApiKey" -> "INVALID_API_KEY"
      [] e.kind = "FileTooLarge" -> "FILE_TOO_LARGE"
      [] e.kind = "InvalidFile" -> "INVALID_FILE"
      [] e.kind = "RateLimitExceeded" -> "RATE_LIMIT_EXCEEDED"
      [] e.kind = "ProcessingError" -> "PROCESSING_ERROR"
      [] e.kind = "OcrError" -> "PROCESSING_ERROR"
      [] e.kind = "Timeout" -> "REQUEST_TIMEOUT"
      [] e.kind = "Internal" -> "INTERNAL_ERROR"
      [] e.kind = "InvalidContentType" -> "INVALID_CONTENT_TYPE"
      [] e.kind = "MissingFile" -> "MISSING_FILE"
      [] e.kind = "ValidationError" -> "VALIDATION_ERROR"
      [] e.kind = "ConfigError" -> "CONFIG_ERROR"
      [] e.kind = "ServiceUnavailable" -> "SERVICE_UNAVAILABLE"
      [] e.kind = "DatabaseError" -> "DATABASE_ERROR"

\* AppError::error_code
error_code(e) ==
    CASE e.kind = "InvalidApiKey" -> "INVALID_API_KEY"
      [] e.kind = "FileTooLarge" -> "FILE_TOO_LARGE"
      [] e.kind = "InvalidFile" -> "INVALID_FILE"
      [] e.kind = "RateLimitExceeded" -> "RATE_LIMIT_EXCEEDED"
      [] e.kind = "ProcessingError" -> "PROCESSING_ERROR"
      [] e.kind = "OcrError" -> "OCR_ERROR"
      [] e.kind = "Timeout" -> "REQUEST_TIMEOUT"
      [] e.kind = "Internal" -> "INTERNAL_ERROR"
      [] e.kind = "InvalidContentType" -> "INVALID_CONTENT_TYPE"
      [] e.kind = "MissingFile" -> "MISSING_FILE"
      [] e.kind = "ValidationError" -> "VALIDATION_ERROR"
      [] e.kind = "ConfigError" -> "CONFIG_ERROR"
      [] e.kind = "ServiceUnavailable" -> "SERVICE_UNAVAILABLE"
      [] e.kind = "DatabaseError" -> "DATABASE_ERROR"

\* AppError::status_code (the numeric value of the StatusCode)
status_code(e) ==
    CASE e.kind = "InvalidApiKey" -> 401
      [] e.kind = "FileTooLarge" -> 413
      [] e.kind = "InvalidFile" -> 400
      [] e.kind = "RateLimitExceeded" -> 429
      [] e.kind = "ProcessingError" -> 500
      [] e.kind = "OcrError" -> 500
      [] e.kind = "Timeout" -> 408
      [] e.kind = "Internal" -> 500
      [] e.kind = "InvalidContentType" -> 400
      [] e.kind = "MissingFile" -> 400
      [] e.kind = "ValidationError" -> 400
      [] e.kind = "ConfigError" -> 500
      [] e.kind = "ServiceUnavailable" -> 503
      [] e.kind = "DatabaseError" -> 500

\* AppError::validation
validation(message) == AppError("ValidationError", message)

\* AppError::config
config(message) == AppError("ConfigError", message)

\* AppError::service_unavailable
service_unavailable(service) == AppError("ServiceUnavailable", service)

\* AppError::processing
processing(message) == AppError("ProcessingError", message)

\* AppError::internal
internal(message) == AppError("Internal", message)

\* the five helper constructors
Helpers == {"validation", "config", "service_unavailable", "processing", "internal"}

\* a call of error_code or status_code on an error, or of a helper
\* constructor on a message
ErrorInit ==
    /\ pc = "start"
    /\ arg \in [fn : {"error_code", "status_code"}, on : AppErrors]
                \cup [fn : Helpers, on : Strings]
    /\ ret = None
    /\ NoCall

ErrorCode ==
    /\ pc = "start"
    /\ arg.fn = "error_code"
    /\ ret' = error_code(arg.on)
    /\ pc' = "mapped"
    /\ UNCHANGED <<arg, callvars>>

StatusCode ==
    /\ pc = "start"
    /\ arg.fn = "status_code"
    /\ ret' = status_code(arg.on)
    /\ pc' = "mapped"
    /\ UNCHANGED <<arg, callvars>>

BuildError ==
    /\ pc = "start"
    /\ arg.fn \in Helpers
    /\ ret' = CASE arg.fn = "validation" -> validation(arg.on)
                [] arg.fn = "config" -> config(arg.on)
                [] arg.fn = "service_unavailable" -> service_unavailable(arg.on)
                [] arg.fn = "processing" -> processing(arg.on)
                [] arg.fn = "internal" -> internal(arg.on)
    /\ pc' = "built"
    /\ UNCHANGED <<arg, callvars>>

ErrorNext ==
    \/ ErrorCode
    \/ StatusCode
    \/ BuildError

ErrorSpec == ErrorInit /\ [][ErrorNext]_vars

----------------------------------------------------------------------------
(* Config::from_env on the texts of the environment variables *)

\* the largest u16 (server_port: u16)
U16Max == 65535

\* the texts of an environment variable: "", "0", "1", "+1", "x", "-1" and
\* "70000"
RawTexts ==
    {<<>>, <<48>>, <<49>>, <<43, 49>>, <<120>>, <<45, 49>>, <<55, 48, 48, 48, 48>>}

\* env::var: the variable is unset, or set to one of the texts
RawValues == {None} \cup {Some(t) : t \in RawTexts}

IsDigit(c) == c \in 48..57

\* the number a sequence of decimal digits denotes
RECURSIVE DigitsValue(_)
DigitsValue(s) ==
    IF s = <<>> THEN 0 ELSE 10 * DigitsValue(SubSeq(s, 1, Len(s) - 1)) + (s[Len(s)] - 48)

\* str::parse for an unsigned integer type: an optional '+', then one or
\* more decimal digits, and a value the type can hold.  The texts have at
\* most five digits, so that usize and u64 hold every value.
ParsesAs(t, type) ==
    LET digits == IF t # <<>> /\ t[1] = 43 THEN Tail(t) ELSE t
    IN  /\ digits # <<>>
        /\ \A i \in 1..Len(digits) : IsDigit(digits[i])
        /\ type = "u16" => DigitsValue(digits) <= U16Max

ParsedValue(t) == DigitsValue(IF t # <<>> /\ t[1] = 43 THEN Tail(t) ELSE t)

\* env::var(var_name) and val.parse() for a field of the given type
EnvValue(raw, type) ==
    IF ~raw.some THEN [set |-> FALSE, parses |-> FALSE, value |-> 0]
    ELSE IF ~ParsesAs(raw.value, type) THEN [set |-> TRUE, parses |-> FALSE, value |-> 0]
    ELSE [set |-> TRUE, parses |-> TRUE, value |-> ParsedValue(raw.value)]

\* the environment as from_env reads it, each variable parsed as the type
\* of its field
EnvOf(raw) ==
    [SERVER_PORT |-> EnvValue(raw.SERVER_PORT, "u16"),
     MAX_FILE_SIZE_MB |-> EnvValue(raw.MAX_FILE_SIZE_MB, "usize"),
     MAX_CONCURRENT_REQUESTS |-> EnvValue(raw.MAX_CONCURRENT_REQUESTS, "usize"),
     REQUEST_TIMEOUT_SECONDS |-> EnvValue(raw.REQUEST_TIMEOUT_SECONDS, "u64"),
     WORKER_THREADS |-> EnvValue(raw.WORKER_THREADS, "usize")]

\* the process environment of one Config::from_env call
ConfigInit ==
    /\ pc = "start"
    /\ arg \in [SERVER_PORT : RawValues,
                MAX_FILE_SIZE_MB : RawValues,
                MAX_CONCURRENT_REQUESTS : RawValues,
                REQUEST_TIMEOUT_SECONDS : RawValues,
                WORKER_THREADS : RawValues]
    /\ ret = None
    /\ NoCall

FromEnv ==
    /\ pc = "start"
    /\ ret' = Config_from_env(EnvOf(arg))
    /\ pc' = "loaded"
    /\ UNCHANGED <<arg, callvars>>

ConfigNext == FromEnv

ConfigSpec == ConfigInit /\ [][ConfigNext]_vars

----------------------------------------------------------------------------
(* Extraction calls running side by side on one file system               *)

\* the number of extraction calls that run side by side
NumCalls == 2

CallIds == 1..NumCalls

\* the names the temporary directory of the system can give: a call holds
\* at most a temp file, a pdf file and an image directory
Names == 1..(3 * NumCalls)

\* how the tools answer a call: direct extraction returns the text of the
\* file, direct extraction fails and OCR recognises the images of the
\* file, or the temporary file cannot be created
Hows == {"direct", "ocr", "no_temp_file"}

\* the input of call c: the calls extract different documents
CallInputs(c) == [content : {c}, how : Hows]

\* a path of the file system: a file or a directory and what it holds
Exists(files, n) == \E e \in files : e.name = n

Unused(files) == {n \in Names : ~Exists(files, n)}

\* the names NamedTempFile::new and TempDir::new may give, whether in use
\* or not
AnyNames(files) == Names

\* the names NamedTempFile::new and TempDir::new may give: a random name
\* created exclusively, so never a name in use (the unused names are
\* interchangeable: the smallest of them)
FreshNames(files) == {n \in Unused(files) : \A m \in Unused(files) : n <= m}

\* creating or writing the path n
Put(files, n, dir, data) ==
    {e \in files : e.name # n} \cup {[name |-> n, dir |-> dir, data |-> data]}

\* what a read of the path n gives (nothing when the path is gone)
ReadPath(files, n) ==
    IF Exists(files, n) THEN (CHOOSE e \in files : e.name = n).data ELSE <<>>

\* dropping NamedTempFile and TempDir values removes their paths
Remove(files, names) == {e \in files : e.name \notin names}

\* pdf_extract::extract_text on the bytes of a file
DirectText(data) == data \o <<0>>

\* pdfimages on the bytes of a file: one image per document
ImagesOf(data) == data

\* tesseract on the images of a directory
OcrText(images) == images \o <<1>>

\* the ExtractionResult of a call: the text, and the page count, which is
\* estimated from the buffer in memory
CallResult(text, content) == Ok([text |-> text, pages |-> content])

NewCall(input) ==
    [pc |-> "start", input |-> input, path |-> 0, pdf_path |-> 0, dir |-> 0,
     text |-> <<>>, outcome |-> None]

ConcurrentInit ==
    /\ pc = "start"
    /\ arg = None
    /\ ret = None
    /\ NoExtract
    /\ NoOcrRun
    /\ NoRequests
    /\ fs = {}
    /\ calls \in [CallIds -> UNION {{NewCall(i) : i \in CallInputs(c)} : c \in CallIds}]
    /\ \A c \in CallIds : calls[c].input.content = c

concurrentfixed == <<pc, arg, ret, file, tesseract, direct, extracted, result, new_calls,
                     ocr_log, source, doc, events, temps, dir_iter, page_count,
                     extracted_text, permits, reqs, metrics>>

\* pdf_processor.rs 58-61: NamedTempFile::new()
CallTempFile(c) ==
    /\ calls[c].pc = "start"
    /\ IF calls[c].input.how = "no_temp_file"
       THEN /\ calls' = [calls EXCEPT ![c].pc = "done",
                             ![c].outcome = Some(Err(AppError("ProcessingError",
                                 <<"Failed to create temporary file: ">>)))]
            /\ fs' = fs
       ELSE \E n \in FreshNames(fs) :
                /\ fs' = Put(fs, n, FALSE, <<>>)
                /\ calls' = [calls EXCEPT ![c].pc = "created", ![c].path = n]
    /\ UNCHANGED concurrentfixed

\* pdf_processor.rs 63-67: temp_file.write_all(&file.content)
CallWrite(c) ==
    /\ calls[c].pc = "created"
    /\ fs' = Put(fs, calls[c].path, FALSE, <<calls[c].input.content>>)
    /\ calls' = [calls EXCEPT ![c].pc = "written"]
    /\ UNCHANGED concurrentfixed

\* pdf_processor.rs 70-80: extract_text(temp_file.path())
CallExtract(c) ==
    /\ calls[c].pc = "written"
    /\ IF calls[c].input.how = "direct"
       THEN calls' = [calls EXCEPT ![c].pc = "finish",
                          ![c].text = DirectText(ReadPath(fs, calls[c].path))]
       ELSE calls' = [calls EXCEPT ![c].pc = "ocr"]
    /\ fs' = fs
    /\ UNCHANGED concurrentfixed

\* ocr_service.rs 101-104: NamedTempFile::new()
CallPdfFile(c) ==
    /\ calls[c].pc = "ocr"
    /\ \E n \in FreshNames(fs) :
            /\ fs' = Put(fs, n, FALSE, <<>>)
            /\ calls' = [calls EXCEPT ![c].pc = "pdf_created", ![c].pdf_path = n]
    /\ UNCHANGED concurrentfixed

\* ocr_service.rs 106-109: pdf_file.write_all(pdf_data)
CallPdfWrite(c) ==
    /\ calls[c].pc = "pdf_created"
    /\ fs' = Put(fs, calls[c].pdf_path, FALSE, <<calls[c].input.content>>)
    /\ calls' = [calls EXCEPT ![c].pc = "pdf_written"]
    /\ UNCHANGED concurrentfixed

\* ocr_service.rs 114-117: TempDir::new()
CallTempDir(c) ==
    /\ calls[c].pc = "pdf_written"
    /\ \E n \in FreshNames(fs) :
            /\ fs' = Put(fs, n, TRUE, <<>>)
            /\ calls' = [calls EXCEPT ![c].pc = "dir_created", ![c].dir = n]
    /\ UNCHANGED concurrentfixed

\* ocr_service.rs 119-126: pdfimages reads pdf_path and writes the images
\* under temp_dir
CallPdfimages(c) ==
    /\ calls[c].pc = "dir_created"
    /\ fs' = Put(fs, calls[c].dir, TRUE, ImagesOf(ReadPath(fs, calls[c].pdf_path)))
    /\ calls' = [calls EXCEPT ![c].pc = "images"]
    /\ UNCHANGED concurrentfixed

\* ocr_service.rs 146-188: read_dir(temp_dir), tesseract on the images, and
\* the return, which drops temp_dir and pdf_file
CallTesseract(c) ==
    /\ calls[c].pc = "images"
    /\ calls' = [calls EXCEPT ![c].pc = "finish",
                     ![c].text = OcrText(ReadPath(fs, calls[c].dir))]
    /\ fs' = Remove(fs, {calls[c].pdf_path, calls[c].dir})
    /\ UNCHANGED concurrentfixed

\* pdf_processor.rs 172-188: the result is built and returned, which drops
\* temp_file
CallReturn(c) ==
    /\ calls[c].pc = "finish"
    /\ calls' = [calls EXCEPT ![c].pc = "done",
                     ![c].outcome = Some(CallResult(calls[c].text, calls[c].input.content))]
    /\ fs' = Remove(fs, {calls[c].path})
    /\ UNCHANGED concurrentfixed

ConcurrentNext ==
    \E c \in CallIds :
        \/ CallTempFile(c)
        \/ CallWrite(c)
        \/ CallExtract(c)
        \/ CallPdfFile(c)
        \/ CallPdfWrite(c)
        \/ CallTempDir(c)
        \/ CallPdfimages(c)
        \/ CallTesseract(c)
        \/ CallReturn(c)

ConcurrentSpec == ConcurrentInit /\ [][ConcurrentNext]_vars

----------------------------------------------------------------------------
(* The extraction handlers: extract_handler and extract_binary_handler    *)

\* the number of requests the handlers serve side by side
NumReqs == 2

ReqIds == 1..NumReqs

MB == 1024 * 1024

\* let max_size_bytes = 10 * 1024 * 1024 in both handlers
HandlerLimitMb == 10

\* the configuration the server runs with: Config::from_env has validated
\* it, and REQUEST_SEMAPHORE reads the same MAX_CONCURRENT_REQUESTS
ServerConfigs == [max_file_size_mb : {5, 10, 20}, max_concurrent_requests : {1, 2}]

\* a request with a PDF of the given size that extraction succeeds on;
\* framing is what the multipart boundaries and headers add to the body
Upload(handler, size) ==
    [handler |-> handler, well_formed |-> TRUE, pdf |-> TRUE, size |-> size,
     framing |-> IF handler = "multipart" THEN 200 ELSE 0, extract_ok |-> TRUE]

\* the requests: PDFs of 0 bytes, 5 MB, 10 MB, 10 MB + 1 and 20 MB + 1, a
\* binary request without the application/pdf content type, a multipart
\* request without a file field, a multipart file that is no PDF, and a
\* PDF on which extraction fails
Requests ==
    {Upload("binary", size) : size \in {0, 5 * MB, 10 * MB, 10 * MB + 1, 20 * MB + 1}}
        \cup {Upload("multipart", size) : size \in {0, 5 * MB, 10 * MB + 1}}
        \cup {[Upload(handler, 2048) EXCEPT !.well_formed = FALSE] :
                    handler \in {"binary", "multipart"}}
        \cup {[Upload("multipart", 2048) EXCEPT !.pdf = FALSE],
              [Upload("binary", 2048) EXCEPT !.extract_ok = FALSE]}

BodyLen(q) == q.size + q.framing

\* Semaphore::try_acquire that grants a permit also when none is left
try_acquire_always(available) ==
    [granted |-> TRUE, left |-> IF available > 0 THEN available - 1 ELSE 0]

\* Semaphore::try_acquire on the available permits
try_acquire(available) ==
    [granted |-> available > 0, left |-> IF available > 0 THEN available - 1 ELSE 0]

\* the response of a handler that returns an AppError
Rejected(kind) == Some(Err(AppError(kind, <<>>)))

\* the size check of both handlers
handler_size_check(size) ==
    IF size > HandlerLimitMb * MB THEN Rejected("FileTooLarge") ELSE None

\* extract_file_from_multipart and the size check of extract_handler:
\* the rejection, or None when extract_text is called
multipart_checks(q, limit) ==
    IF BodyLen(q) > limit THEN Rejected("InvalidFile")
    ELSE IF ~q.well_formed THEN Rejected("MissingFile")
    ELSE IF q.size = 0 THEN Rejected("InvalidFile")
    ELSE IF ~q.pdf THEN Rejected("InvalidFile")
    ELSE handler_size_check(q.size)

\* the content-type, empty-body and size checks of extract_binary_handler
binary_checks(q) ==
    IF ~q.well_formed THEN Rejected("InvalidContentType")
    ELSE IF q.size = 0 THEN Rejected("MissingFile")
    ELSE handler_size_check(q.size)

\* the checks of PdfProcessor::extract_text before the temporary file
core_checks(q, cfg) ==
    IF ~q.pdf THEN Rejected("InvalidFile")
    ELSE IF q.size > cfg.max_file_size_mb * MB THEN Rejected("FileTooLarge")
    ELSE None

\* body_read: the body of the request, the upload, has been read
NewRequest(q) ==
    [q |-> q, pc |-> "arrived", permit |-> FALSE, body_read |-> FALSE, resp |-> None]

\* the server runs with a configuration, all permits are available, and
\* the requests have arrived at the routes of the handlers
HandlerInit ==
    /\ pc = "start"
    /\ arg \in ServerConfigs
    /\ ret = None
    /\ NoExtract
    /\ NoOcrRun
    /\ NoCalls
    /\ NoMetrics
    /\ permits = arg.max_concurrent_requests
    /\ reqs \in [ReqIds -> {NewRequest(q) : q \in Requests}]

handlerfixed == <<pc, arg, ret, file, tesseract, direct, extracted, result, new_calls,
                  ocr_log, source, doc, events, temps, dir_iter, page_count,
                  extracted_text, fs, calls, metrics>>

\* the handler returns resp and the permit is not given back
ReturnKeepingPermit(r, resp) ==
    /\ reqs' = [reqs EXCEPT ![r].pc = "done", ![r].permit = FALSE, ![r].resp = resp,
                            ![r].body_read = TRUE]
    /\ permits' = permits

\* the handler returns resp, which drops _permit; a handler that holds a
\* permit returns after the body was read, by the Bytes extractor or by
\* extract_file_from_multipart
Return(r, resp) ==
    /\ reqs' = [reqs EXCEPT ![r].pc = "done", ![r].permit = FALSE, ![r].resp = resp,
                            ![r].body_read = TRUE]
    /\ permits' = permits + 1

\* extract.rs 151-154 and main.rs 79: the arguments of the handler are
\* extracted before it is called.  body: Bytes is the whole body, read
\* under DefaultBodyLimit; the Multipart extractor reads nothing yet
Extractors(r) ==
    /\ reqs[r].pc = "arrived"
    /\ IF reqs[r].q.handler = "binary"
       THEN IF BodyLen(reqs[r].q) > arg.max_file_size_mb * MB
            THEN reqs' = [reqs EXCEPT ![r].pc = "done",
                                     ![r].resp = Rejected("LengthLimit")]
            ELSE reqs' = [reqs EXCEPT ![r].pc = "handler", ![r].body_read = TRUE]
       ELSE reqs' = [reqs EXCEPT ![r].pc = "handler"]
    /\ UNCHANGED <<permits, handlerfixed>>

\* extract.rs 21-26, 161-166: REQUEST_SEMAPHORE.try_acquire()
TryAcquire(r) ==
    /\ reqs[r].pc = "handler"
    /\ LET acquired == try_acquire(permits)
       IN  IF acquired.granted
           THEN /\ permits' = acquired.left
                /\ reqs' = [reqs EXCEPT ![r].pc = "admitted", ![r].permit = TRUE]
           ELSE /\ permits' = permits
                /\ reqs' = [reqs EXCEPT ![r].pc = "done",
                                ![r].resp = Rejected("RateLimitExceeded")]
    /\ UNCHANGED handlerfixed

\* extract.rs 31-60: extract_file_from_multipart and the size check
ReadMultipart(r) ==
    /\ reqs[r].pc = "admitted"
    /\ reqs[r].q.handler = "multipart"
    /\ LET rejection == multipart_checks(reqs[r].q, arg.max_file_size_mb * MB)
       IN  IF rejection.some
           THEN Return(r, rejection)
           ELSE /\ reqs' = [reqs EXCEPT ![r].pc = "file", ![r].body_read = TRUE]
                /\ permits' = permits
    /\ UNCHANGED handlerfixed

\* extract.rs 171-208: the content type, the empty body and the size check
CheckBinary(r) ==
    /\ reqs[r].pc = "admitted"
    /\ reqs[r].q.handler = "binary"
    /\ LET rejection == binary_checks(reqs[r].q)
       IN  IF rejection.some
           THEN Return(r, rejection)
           ELSE /\ reqs' = [reqs EXCEPT ![r].pc = "file"]
                /\ permits' = permits
    /\ UNCHANGED handlerfixed

\* extract.rs 63-64, 217-218 and pdf_processor.rs 35-51: extract_text is
\* called and makes its own checks
ExtractText(r) ==
    /\ reqs[r].pc = "file"
    /\ LET rejection == core_checks(reqs[r].q, arg)
       IN  IF rejection.some
           THEN Return(r, rejection)
           ELSE /\ reqs' = [reqs EXCEPT ![r].pc = "extracting"]
                /\ permits' = permits
    /\ UNCHANGED handlerfixed

\* extract.rs 64-96, 218-250: extract_text returns and the handler returns
\* the response or the error
Respond(r) ==
    /\ reqs[r].pc = "extracting"
    /\ Return(r, IF reqs[r].q.extract_ok THEN Some(Ok(<<"text">>))
                 ELSE Rejected("ProcessingError"))
    /\ UNCHANGED handlerfixed

HandlerNext ==
    \E r \in ReqIds :
        \/ Extractors(r)
        \/ TryAcquire(r)
        \/ ReadMultipart(r)
        \/ CheckBinary(r)
        \/ ExtractText(r)
        \/ Respond(r)

HandlerSpec == HandlerInit /\ [][HandlerNext]_vars

----------------------------------------------------------------------------
(* rate_limit_middleware and get_rate_limit_metrics                        *)

\* the paths of the requests that go through the middleware
Paths == {"/health", "/ready", "/api/v1/extract"}

\* path == "/health" || path == "/ready"
IsHealthPath(path) == path \in {"/health", "/ready"}

NewMiddlewareRequest(path) == [path |-> path, pc |-> "arrived", permit |-> FALSE]

\* the counters are 0, all permits are available, the requests have arrived
\* at the middleware, and get_rate_limit_metrics has been called
MetricsInit ==
    /\ pc = "start"
    /\ arg \in [max_concurrent_requests : {1, 2}]
    /\ ret = None
    /\ NoExtract
    /\ NoOcrRun
    /\ NoCalls
    /\ NoMetrics
    /\ permits = arg.max_concurrent_requests
    /\ reqs \in [ReqIds -> {NewMiddlewareRequest(path) : path \in Paths}]

metricsfixed == <<arg, file, tesseract, direct, extracted, result, new_calls, ocr_log,
                  source, doc, events, temps, dir_iter, page_count, extracted_text, fs,
                  calls>>

\* rate_limit.rs 35-37: /health and /ready go on without a permit
SkipHealth(m) ==
    /\ reqs[m].pc = "arrived"
    /\ IsHealthPath(reqs[m].path)
    /\ reqs' = [reqs EXCEPT ![m].pc = "done"]
    /\ UNCHANGED <<pc, ret, permits, metrics, metricsfixed>>

\* rate_limit.rs 40: TOTAL_REQUESTS.fetch_add(1, Ordering::Relaxed)
CountTotal(m) ==
    /\ reqs[m].pc = "arrived"
    /\ ~IsHealthPath(reqs[m].path)
    /\ metrics' = [metrics EXCEPT !.total = @ + 1]
    /\ reqs' = [reqs EXCEPT ![m].pc = "counted"]
    /\ UNCHANGED <<pc, ret, permits, metricsfixed>>

\* rate_limit.rs 43-44: REQUEST_SEMAPHORE.try_acquire()
MiddlewareAcquire(m) ==
    /\ reqs[m].pc = "counted"
    /\ LET acquired == try_acquire(permits)
       IN  /\ permits' = acquired.left
           /\ reqs' = [reqs EXCEPT ![m].pc = IF acquired.granted THEN "next" ELSE "refused",
                                   ![m].permit = acquired.granted]
    /\ UNCHANGED <<pc, ret, metrics, metricsfixed>>

\* rate_limit.rs 45-55: REJECTED_REQUESTS.fetch_add(1, Ordering::Relaxed)
\* and the return of RateLimitExceeded
CountRejected(m) ==
    /\ reqs[m].pc = "refused"
    /\ metrics' = [metrics EXCEPT !.rejected = @ + 1]
    /\ reqs' = [reqs EXCEPT ![m].pc = "done"]
    /\ UNCHANGED <<pc, ret, permits, metricsfixed>>

\* rate_limit.rs 65-73: next.run(request) returns, and the return of the
\* middleware drops _permit
MiddlewareReturn(m) ==
    /\ reqs[m].pc = "next"
    /\ reqs' = [reqs EXCEPT ![m].pc = "done", ![m].permit = FALSE]
    /\ permits' = permits + 1
    /\ UNCHANGED <<pc, ret, metrics, metricsfixed>>

\* rate_limit.rs 78: TOTAL_REQUESTS.load(Ordering::Relaxed)
LoadTotal ==
    /\ pc = "start"
    /\ ret' = Some(<<metrics.total>>)
    /\ pc' = "total"
    /\ UNCHANGED <<reqs, permits, metrics, metricsfixed>>

\* rate_limit.rs 79: REJECTED_REQUESTS.load(Ordering::Relaxed)
LoadRejected ==
    /\ pc = "total"
    /\ ret' = Some(ret.value \o <<metrics.rejected>>)
    /\ pc' = "rejected"
    /\ UNCHANGED <<reqs, permits, metrics, metricsfixed>>

\* rate_limit.rs 80-81: available_permits() and the triple returned
LoadAvailable ==
    /\ pc = "rejected"
    /\ ret' = Some(ret.value \o <<permits>>)
    /\ pc' = "read"
    /\ UNCHANGED <<reqs, permits, metrics, metricsfixed>>

MetricsNext ==
    \/ \E m \in ReqIds :
            \/ SkipHealth(m)
            \/ CountTotal(m)
            \/ MiddlewareAcquire(m)
            \/ CountRejected(m)
            \/ MiddlewareReturn(m)
    \/ LoadTotal
    \/ LoadRejected
    \/ LoadAvailable

MetricsSpec == MetricsInit /\ [][MetricsNext]_vars

----------------------------------------------------------------------------
(* auth_middleware in front of the extraction handlers                    *)

\* "Bearer "
BearerPrefix == <<66, 101, 97, 114, 101, 114, 32>>

\* the values of the variable VALID_API_KEYS: unset, "", "k", " k ,j" and
\* " , "
KeyEnvs ==
    {None, Some(<<>>), Some(<<107>>), Some(<<32, 107, 32, 44, 106>>), Some(<<32, 44, 32>>)}

\* str::split(',')
RECURSIVE Split(_, _)
Split(s, sep) ==
    IF \A i \in 1..Len(s) : s[i] # sep
    THEN <<s>>
    ELSE LET i == CHOOSE i \in 1..Len(s) : s[i] = sep /\ \A j \in 1..(i - 1) : s[j] # sep
         IN  <<SubSeq(s, 1, i - 1)>> \o Split(SubSeq(s, i + 1, Len(s)), sep)

\* static VALID_API_KEYS: the trimmed, non-empty parts of the variable
VALID_API_KEYS(env) ==
    LET parts == Split(IF env.some THEN env.value ELSE <<>>, 44)
    IN  {Trim(parts[i]) : i \in 1..Len(parts)} \ {<<>>}

\* a check of the key that every token passes
validate_api_key_any(key, keys) == TRUE

\* Config::validate_api_key
validate_api_key(key, keys) == key \in keys

\* str::starts_with
starts_with(s, prefix) == Len(s) >= Len(prefix) /\ SubSeq(s, 1, Len(prefix)) = prefix

\* the Authorization header of a request: absent, bytes that are no
\* visible ASCII text, "Bearer k", "Bearer j", "Bearer x", "Bearer ",
\* "bearer k", "k" and "Bearer  k"
AuthHeaders ==
    {[present |-> FALSE, text |-> FALSE, value |-> <<>>],
     [present |-> TRUE, text |-> FALSE, value |-> BearerPrefix \o <<107>>]}
        \cup {[present |-> TRUE, text |-> TRUE, value |-> v] :
                v \in {BearerPrefix \o <<107>>, BearerPrefix \o <<106>>,
                       BearerPrefix \o <<120>>, BearerPrefix,
                       <<98>> \o Tail(BearerPrefix) \o <<107>>, <<107>>,
                       BearerPrefix \o <<32, 107>>}}

\* the route of a handler
RouteOf(handler) ==
    IF handler = "binary" THEN "/api/v1/extract/binary" ELSE "/api/v1/extract"

\* auth_middleware: the rejection, or None when next.run is called
auth_middleware(path, header, keys) ==
    IF path = "/health" THEN None
    ELSE IF ~header.present \/ ~header.text THEN Rejected("InvalidApiKey")
    ELSE IF ~starts_with(header.value, BearerPrefix) THEN Rejected("InvalidApiKey")
    ELSE LET token == SubSeq(header.value, Len(BearerPrefix) + 1, Len(header.value))
         IN  IF token = <<>> THEN Rejected("InvalidApiKey")
             ELSE IF ~validate_api_key(token, keys) THEN Rejected("InvalidApiKey")
             ELSE None

\* a request as the router receives it
ReceivedRequest(q, header) ==
    [q |-> q, pc |-> "received", permit |-> FALSE, body_read |-> FALSE, resp |-> None,
     authorization |-> header]

\* the server runs with one permit and a set of keys, and one request to a
\* protected route has been received
AuthInit ==
    /\ pc = "start"
    /\ arg \in [max_file_size_mb : {HandlerLimitMb}, max_concurrent_requests : {1},
                valid_api_keys : KeyEnvs]
    /\ ret = None
    /\ NoExtract
    /\ NoOcrRun
    /\ NoCalls
    /\ NoMetrics
    /\ permits = arg.max_concurrent_requests
    /\ reqs \in [{1} -> {ReceivedRequest(q, header) : q \in Requests, header \in AuthHeaders}]

\* main.rs 66-70 and auth.rs 12-62: the layer of the protected routes
Authenticate(r) ==
    /\ reqs[r].pc = "received"
    /\ LET rejection == auth_middleware(RouteOf(reqs[r].q.handler), reqs[r].authorization,
                                        VALID_API_KEYS(arg.valid_api_keys))
       IN  IF rejection.some
           THEN reqs' = [reqs EXCEPT ![r].pc = "done", ![r].resp = rejection]
           ELSE reqs' = [reqs EXCEPT ![r].pc = "arrived"]
    /\ UNCHANGED <<permits, handlerfixed>>

AuthNext ==
    \E r \in DOMAIN reqs :
        \/ Authenticate(r)
        \/ Extractors(r)
        \/ TryAcquire(r)
        \/ ReadMultipart(r)
        \/ CheckBinary(r)
        \/ ExtractText(r)
        \/ Respond(r)

AuthSpec == AuthInit /\ [][AuthNext]_vars

----------------------------------------------------------------------------
(* The claims *)

Done == pc = "done"

\* direct extraction returned a text that is empty after trimming
DirectEmpty == direct.state = "ok" /\ Trim(direct.text) = <<>>

\* direct extraction itself failed
DirectFailed == direct.state = "err"

\* the classifier's verdict on the file
Scanned == is_likely_scanned_pdf(file.content)

\* the last extract_text_from_pdf invocation of the call
LastOcr == ocr_log[Len(ocr_log)]

\* every phrase of part occurs in msg
ContainsAll(msg, part) == \A i \in 1..Len(part) : Contains(msg, part[i])

\* the message names the missing OCR engine
MentionsOcrUnavailable(msg) ==
    \/ Contains(msg, "Tesseract is not installed")
    \/ Contains(msg, "Tesseract OCR not available on this system")

\* C1: in every successful result, ocr_used is true exactly when the
\* returned text was produced by the OCR engine.
C1_OcrUsedIffTextFromOcr ==
    (Done /\ result.tag = "ok") => (result.metadata.ocr_used <=> source = "ocr")

\* C2: when direct extraction yields empty text and the classifier says
\* "not scanned", the call succeeds with empty text and ocr_used = false,
\* whether or not the OCR engine is installed.
C2_EmptyNotScannedSucceeds ==
    (Done /\ DirectEmpty /\ ~Scanned) =>
        (result.tag = "ok" /\ result.text = <<>> /\ ~result.metadata.ocr_used)

\* C3: with the OCR engine absent, the document flagged as scanned and
\* empty direct text, the call fails with ProcessingError and the message
\* refers to the missing engine.
C3_ScannedWithoutEngineIsProcessingError ==
    (Done /\ ~tesseract /\ Scanned /\ DirectEmpty) =>
        (/\ result.tag = "err"
         /\ result.error.kind = "ProcessingError"
         /\ MentionsOcrUnavailable(result.error.message))

\* C4: extract_text never returns AppError::OcrError to its caller.
C4_NoRawOcrError ==
    (Done /\ result.tag = "err") => result.error.kind # "OcrError"

\* the text is non-empty and weak: under 100 characters or fewer than 50
\* alphabetic characters
DirectWeak ==
    /\ direct.state = "ok"
    /\ Trim(direct.text) # <<>>
    /\ (CharCount(Trim(direct.text)) < MinTextLen
            \/ AlphaCount(Trim(direct.text)) < MinAlphaCount)

\* the OCR attempt of the last path failed: the engine is not installed,
\* the engine refused the document, or the recognition run failed
LastOcrFailed ==
    \/ ~tesseract
    \/ (ocr_log # <<>> /\ ~LastOcr.returned.ok)
    \/ (ocr_log # <<>> /\ LastOcr.performed /\ ~LastOcr.perform.ok)

\* C5: in the enhancement path a failed OCR attempt, a missing engine
\* included, leaves the call successful with the trimmed direct text and
\* ocr_used = false.
C5_EnhancementOcrIsOptional ==
    (Done /\ DirectWeak /\ LastOcrFailed) =>
        (/\ result.tag = "ok"
         /\ result.text = Trim(direct.text)
         /\ ~result.metadata.ocr_used)

\* direct extraction yielded at least 100 characters with at least 50
\* alphabetic characters
DirectStrong ==
    /\ direct.state = "ok"
    /\ CharCount(Trim(direct.text)) >= MinTextLen
    /\ AlphaCount(Trim(direct.text)) >= MinAlphaCount

\* C6: when direct extraction yields at least 100 characters with at least
\* 50 alphabetic characters, neither OcrService::new nor
\* extract_text_from_pdf runs during the call, and the result has
\* ocr_used = false.
C6_StrongTextNeverUsesOcr ==
    DirectStrong =>
        (/\ new_calls = 0
         /\ ocr_log = <<>>
         /\ (Done => (result.tag = "ok" /\ ~result.metadata.ocr_used)))

\* C6, witness: a call that returned a direct text of exactly 100
\* characters, 50 of them alphabetic
C6_Witness ==
    /\ Done
    /\ DirectStrong
    /\ CharCount(Trim(direct.text)) = MinTextLen
    /\ AlphaCount(Trim(direct.text)) = MinAlphaCount
    /\ result.tag = "ok"

\* the OCR run of the empty path recognised the pages
EmptyPathOcrSucceeded ==
    /\ Done
    /\ DirectEmpty
    /\ Scanned
    /\ ocr_log # <<>>
    /\ LastOcr.performed
    /\ LastOcr.perform.ok

\* C7: when direct extraction yields empty text, the classifier says
\* "scanned" and OCR succeeds, the call succeeds with ocr_used = true and
\* the trimmed OCR output as its text.
C7_EmptyPathReturnsOcrText ==
    EmptyPathOcrSucceeded =>
        (/\ result.tag = "ok"
         /\ result.metadata.ocr_used
         /\ result.text = Trim(LastOcr.raw))

\* C7, witness: an empty-path call whose OCR output had white space to trim
C7_Witness ==
    /\ EmptyPathOcrSucceeded
    /\ Trim(LastOcr.raw) # LastOcr.raw
    /\ result.tag = "ok"
    /\ result.text # <<>>

\* C8: when direct extraction fails, extract_text_from_pdf is invoked at
\* most once in the call.
C8_FallbackOcrRunsOnce ==
    DirectFailed => (Len(ocr_log) <= 1 /\ new_calls <= 1)

\* the fallback OCR attempt (the first of the call) failed
FallbackOcrFailed ==
    \/ ~tesseract
    \/ (ocr_log # <<>> /\ ~ocr_log[1].returned.ok)
    \/ (ocr_log # <<>> /\ ocr_log[1].performed /\ ~ocr_log[1].perform.ok)

\* the error of the failed fallback OCR attempt
FallbackOcrError ==
    IF ~tesseract THEN OcrService_new(FALSE).error
    ELSE IF ~ocr_log[1].returned.ok THEN ocr_log[1].returned.error
    ELSE ocr_log[1].perform.error

\* C9: when direct extraction fails and the OCR attempt fails too, the
\* call fails with ProcessingError and the message holds both the direct
\* extraction's message and the OCR message.
C9_BothFailedIsProcessingError ==
    (Done /\ DirectFailed /\ FallbackOcrFailed) =>
        (/\ result.tag = "err"
         /\ result.error.kind = "ProcessingError"
         /\ ContainsAll(result.error.message, direct.error)
         /\ ContainsAll(result.error.message, FallbackOcrError.message))

\* C10: in the empty path, with the document flagged as scanned and the
\* engine present, a failed recognition run (no image tool, no image, a
\* temporary file that cannot be made) makes the call fail with
\* ProcessingError wrapping the OCR message.
C10_EmptyPathOcrFailureIsError ==
    (Done /\ DirectEmpty /\ Scanned /\ tesseract
        /\ ocr_log # <<>> /\ LastOcr.performed /\ ~LastOcr.perform.ok) =>
        (/\ result.tag = "err"
         /\ result.error.kind = "ProcessingError"
         /\ ContainsAll(result.error.message, LastOcr.perform.error.message))

\* the call took the enhancement path: direct extraction returned a text
\* that is not empty after trimming, and the OCR engine was consulted
InEnhancementPath ==
    /\ Done
    /\ direct.state = "ok"
    /\ Trim(direct.text) # <<>>
    /\ new_calls > 0

\* the OCR attempt returned a text whose length (str::len) is strictly
\* greater than that of the trimmed direct text
OcrWon ==
    /\ ocr_log # <<>>
    /\ LastOcr.returned.ok
    /\ ByteLen(LastOcr.returned.value) > ByteLen(Trim(direct.text))

C11_WitnessEqualLength ==
    /\ InEnhancementPath
    /\ result.tag = "ok"
    /\ ocr_log # <<>>
    /\ LastOcr.returned.ok
    /\ LastOcr.returned.value # Trim(direct.text)
    /\ ByteLen(LastOcr.returned.value) = ByteLen(Trim(direct.text))
    /\ result.text = Trim(direct.text)

\* the call returned an ExtractionResult
Returned == Done /\ result.tag = "ok"

\* load_mem parsed the content
Parsed == doc.some /\ doc.value.ok

\* C12: in every terminal state that returns a result, title and author
\* are what the decoder makes of the Title and Author of the parsed Info
\* dictionary; they are absent only when the structure does not parse or
\* the field is missing or empty.
C12_TitleAndAuthorFromInfo ==
    Returned =>
        (/\ result.metadata.title = extract_title(doc.value)
         /\ result.metadata.author = extract_author(doc.value))

\* C13: every returned ExtractionResult has pages >= 1.
C13_PagesAtLeastOne ==
    Returned => result.pages >= 1

\* max(1, floor(floor(N / 1024) / 50))
SizeEstimate(N) == IF (N \div 1024) \div 50 >= 1 THEN (N \div 1024) \div 50 ELSE 1

\* a failure that the temporary file or the OCR engine accounts for
FailureHasOtherCause ==
    \/ result.error.message[1] \in {"Failed to create temporary file: ",
                                    "Failed to write PDF to temporary file: "}
    \/ new_calls > 0

\* C14: the page count of a returned result is the size of the parsed page
\* tree when the structure parses, and max(1, floor(floor(N/1024)/50)) for
\* a buffer of N bytes otherwise; a structure that does not parse never
\* makes the call fail.
C14_PageCount ==
    /\ Returned =>
            (result.pages = IF Parsed THEN doc.value.value.pages
                                      ELSE SizeEstimate(file.content.len))
    /\ (Done /\ result.tag = "err" /\ doc.some /\ ~Parsed) => FailureHasOtherCause

\* C14, witness: a buffer of 150 KB whose structure does not parse is
\* returned with 3 pages
C14_Witness ==
    /\ Returned
    /\ ~Parsed
    /\ file.content.len = 153600
    /\ result.pages = 3

\* the call was rejected because the file is not a PDF
RejectedAsInvalid ==
    Done /\ result.tag = "err" /\ result.error.kind = "InvalidFile"

\* C15: a document is rejected as invalid only when none of the three
\* indicators matches: the declared MIME type is not application/pdf, the
\* name does not end in .pdf and the content does not start with %PDF; a
\* document declared with another MIME type but named *.pdf or starting
\* with %PDF is accepted.
C15_RejectedOnlyWithoutIndicator ==
    RejectedAsInvalid =>
        (/\ file.mime_type # "application/pdf"
         /\ ~file.name_pdf
         /\ ~file.content.sig_pdf)

\* direct extraction returned a text that is not empty after trimming
DirectNonEmpty == direct.state = "ok" /\ Trim(direct.text) # <<>>

\* C16: a non-empty direct text goes to the enhancement path exactly when
\* its trimmed length is under 100 characters or it has fewer than 50
\* alphabetic characters, the length being counted in characters: sixty
\* two-byte letters are weak, 100 characters with 50 letters are accepted.
C16_WeakIffShortInCharacters ==
    (Done /\ DirectNonEmpty) => (DirectWeak <=> new_calls > 0)

\* extract_title or extract_author has returned
Decoded == pc \in {"title", "author"}

ZeroCount(bytes) == Cardinality({i \in 1..Len(bytes) : bytes[i] = 0})

StartsWith(bytes, b0, b1) == Len(bytes) >= 2 /\ bytes[1] = b0 /\ bytes[2] = b1

\* the encoding selection as C17 states it
SelectedDecoding(bytes) ==
    IF StartsWith(bytes, 254, 255) THEN decode_utf16_be(SubSeq(bytes, 3, Len(bytes)))
    ELSE IF StartsWith(bytes, 255, 254) THEN decode_utf16_le(SubSeq(bytes, 3, Len(bytes)))
    ELSE IF 3 * ZeroCount(bytes) > Len(bytes) THEN decode_utf16_be(bytes)
    ELSE from_utf8_lossy(bytes)

\* a decoded string as the decoder reports it: trimmed, None when empty
Reported(text) == IF Trim(text) # <<>> THEN Some(Trim(text)) ELSE None

\* C17: for every raw byte string, those of length 0 and 1 included, bytes
\* starting FE FF are decoded as UTF-16BE after the mark, else bytes
\* starting FF FE as UTF-16LE after the mark, else bytes of which more than
\* one third are zero as UTF-16BE without a mark, and all others as lossy
\* UTF-8.
C17_EncodingSelection ==
    (Decoded /\ arg.some) => ret = Reported(SelectedDecoding(arg.value))

\* the raw string went through one of the UTF-16 branches
Utf16Branch(bytes) ==
    \/ StartsWith(bytes, 254, 255)
    \/ StartsWith(bytes, 255, 254)
    \/ looks_like_utf16(bytes)

\* C19: the decoder never yields an empty or whitespace-padded string: its
\* output is trimmed, holds no null code point after a UTF-16 branch, and a
\* value that is empty after trimming is reported as None.
C19_DecoderOutputTrimmed ==
    (Decoded /\ ret.some) =>
        (/\ ret.value # <<>>
         /\ ~IsWhitespace(ret.value[1])
         /\ ~IsWhitespace(ret.value[Len(ret.value)])
         /\ (Utf16Branch(arg.value) => \A i \in 1..Len(ret.value) : ret.value[i] # 0))

\* C19, witness: a UTF-16 string without a mark, with a null code point and
\* a leading space, of which a letter is left
C19_Witness ==
    /\ Decoded
    /\ arg = Some(<<0, 0, 0, 32, 0, 97>>) \/ arg = Some(<<0, 32, 0, 97>>)
    /\ ret = Some(<<97>>)

\* extract_title has returned the decoding of the encoded title
RoundTripDone == pc \in {"utf16be", "utf16le", "utf8"}

\* the string a decoder result stands for
ValueOf(opt) == IF opt.some THEN opt.value ELSE <<>>

\* C18: for every string s, encoding s as UTF-16BE with the mark and
\* decoding returns s, and so do UTF-16LE with the mark and UTF-8, over an
\* alphabet with a character outside the Basic Multilingual Plane, white
\* space and ASCII.
C18_RoundTrip ==
    RoundTripDone => ValueOf(ret) = arg

\* the classifier has returned
Classified == pc = "classified"

\* C20: the classifier returns "likely scanned" exactly when a scanning-app
\* signature is present, or image-count > 0 and text-count = 0, or
\* image-count > 10 and image-count >= text-count, or image-count >
\* 2 * text-count; a buffer with no image marker and no signature is never
\* "scanned".
C20_ClassifierRule ==
    Classified =>
        (/\ ret <=> (\/ arg.has_scan_app
                     \/ (arg.image_count > 0 /\ arg.text_count = 0)
                     \/ (arg.image_count > 10 /\ arg.image_count >= arg.text_count)
                     \/ (arg.image_count > 2 * arg.text_count))
         /\ ((arg.image_count = 0 /\ ~arg.has_scan_app) => ~ret))

\* C20, witness: eleven image markers and eleven text markers without a
\* signature are "scanned"
C20_Witness ==
    /\ Classified
    /\ ~arg.has_scan_app
    /\ arg.image_count = 11
    /\ arg.text_count = 11
    /\ ret = TRUE

\* C20, witness: one /Font, one BT and one ET without an image marker are
\* "not scanned"
C20_WitnessTextOnly ==
    /\ Classified
    /\ ~arg.has_scan_app
    /\ arg.image_count = 0
    /\ arg.text_count = 3
    /\ ret = FALSE

\* the step-by-step run is over
RunOver == pc = "returned"

TC22 == RunOver => temps = {}

\* perform_ocr_on_pdf has returned, ret is what it returned
Performed == pc = "performed"

\* the image entries of a listing
ImageEntries(listing) == {i \in 1..Len(listing) : is_image(listing[i])}

\* every page image of the listing yields text
AllPagesYieldText(listing) ==
    /\ ImageEntries(listing) # {}
    /\ \A i \in ImageEntries(listing) :
            listing[i].tess.spawned /\ listing[i].tess.success /\ listing[i].tess.stdout # <<>>

RECURSIVE InPageOrder(_, _)
\* the outputs of pages p..k one after the other, each followed by the
\* blank line
InPageOrder(p, k) ==
    IF p > k THEN <<>> ELSE TessOn(p, "text").stdout \o <<10, 10>> \o InPageOrder(p + 1, k)

\* C21: when OCR runs over k page images that each yield text, the text
\* returned is the k page outputs in page order (page 1, 2, .., k) with a
\* blank line between them, whatever the order in which the directory
\* lists the image files.
C21_TextInPageOrder ==
    (Performed /\ page_count > 0 /\ AllPagesYieldText(arg.listing)) =>
        (/\ ret.ok
         /\ ret.value = Trim(InPageOrder(1, Cardinality(ImageEntries(arg.listing)))))

\* the temporary resources that may exist while the run is at pc
InScope ==
    CASE pc \in {"start", "returned"} -> {}
      [] pc \in {"write_all", "direct", "new", "classify", "available", "pdf_file",
                  "performed", "ocr_returned"} -> {TheTempFile}
      [] pc \in {"pdf_write", "temp_dir"} -> {TheTempFile, ThePdfFile}
      [] OTHER -> {TheTempFile} \cup OcrScope

\* C22: every temporary file and directory created during a call is
\* released on every exit path: those of perform_ocr_on_pdf are gone when
\* it has returned, with or without an error, and none remains when the
\* call has returned.
C22_TemporariesReleased ==
    /\ temps \subseteq InScope
    /\ RunOver => temps = {}

\* C22, witness: a call that went through the images of two pages has
\* returned
C22_Witness ==
    /\ RunOver
    /\ page_count = 2
    /\ temps = {}

\* the positions of the events of a command
EventsOf(cmd) == {i \in 1..Len(events) : events[i].cmd = cmd}

\* the command was launched during the run
Launched(cmd) == \E i \in EventsOf(cmd) : events[i].launched

\* the failure names the missing engine
EngineNotInstalled(r) == ~r.ok /\ MentionsOcrUnavailable(r.error.message)

\* the failure says that the document is no scan candidate
NotAScanCandidate(r) ==
    ~r.ok /\ Contains(r.error.message, "does not appear to contain scanned content")

\* C26: the presence of the engine is checked first and the classifier is
\* consulted only if the engine is present; without the engine the "engine
\* not installed" failure is produced whatever the classifier would say;
\* with the engine and a "not scanned" verdict the "not a scan candidate"
\* failure is produced and no image is extracted and no recognition run.
C26_PreconditionOrder ==
    /\ events # <<>> => events[1].cmd = "tesseract --version"
    /\ EventsOf("is_likely_scanned_pdf") # {} => arg.tesseract
    /\ (RunOver /\ arg.needs_ocr /\ arg.temp_file = "none" /\ ~arg.tesseract) =>
            EngineNotInstalled(ret)
    /\ (pc \in {"ocr_returned", "returned"} /\ arg.needs_ocr /\ arg.temp_file = "none"
            /\ arg.tesseract /\ ~is_likely_scanned_pdf(arg.content)) =>
            (/\ NotAScanCandidate(ret)
             /\ EventsOf("pdfimages") \cup EventsOf("convert") \cup EventsOf("tesseract") = {})

\* C26, witness: the engine is absent and the classifier would say
\* "not scanned"
C26_Witness ==
    /\ RunOver
    /\ arg.needs_ocr
    /\ ~arg.tesseract
    /\ ~is_likely_scanned_pdf(arg.content)
    /\ EngineNotInstalled(ret)

\* tesseract recognised text on the entry
YieldsText(entry) ==
    is_image(entry) /\ entry.tess.spawned /\ entry.tess.success /\ entry.tess.stdout # <<>>

\* the text holds the output of page p
HoldsPage(text, p) == \E i \in 1..Len(text) : text[i] = 48 + p

\* C27: failures of the recognition on single pages are not fatal: the
\* pages on which tesseract cannot be launched or exits unsuccessfully are
\* skipped, the outputs of the other pages are still returned and
\* perform_ocr_on_pdf succeeds; with at least one image and no page that
\* yields anything the result is the empty string, not an error.
C27_PageFailuresNotFatal ==
    (Performed /\ page_count > 0) =>
        (/\ ret.ok
         /\ \A i \in ImageEntries(arg.listing) :
                HoldsPage(ret.value, arg.listing[i].page) <=> YieldsText(arg.listing[i])
         /\ (\A i \in ImageEntries(arg.listing) : ~YieldsText(arg.listing[i])) =>
                ret.value = <<>>)

\* C27, witness: of three pages the first fails to start, the second exits
\* unsuccessfully and the third is recognised
C27_Witness ==
    /\ Performed
    /\ page_count = 3
    /\ \E i, j, k \in ImageEntries(arg.listing) :
            /\ ~arg.listing[i].tess.spawned
            /\ arg.listing[j].tess.spawned /\ ~arg.listing[j].tess.success
            /\ YieldsText(arg.listing[k])
    /\ ret.ok
    /\ ret.value # <<>>

\* the run is past the extraction of the images
PastImageExtraction == pc \in {"read_dir", "loop", "performed", "ocr_returned", "returned"}

\* C28: convert is invoked exactly when pdfimages cannot be launched; when
\* neither can be launched perform_ocr_on_pdf fails; when pdfimages runs,
\* convert is never invoked in the call.
C28_ConvertIffNoPdfimages ==
    /\ EventsOf("convert") # {} =>
            (EventsOf("pdfimages") # {} /\ ~Launched("pdfimages"))
    /\ (PastImageExtraction /\ EventsOf("pdfimages") # {} /\ ~Launched("pdfimages")) =>
            EventsOf("convert") # {}
    /\ Launched("pdfimages") => EventsOf("convert") = {}
    /\ (Performed /\ EventsOf("convert") # {} /\ ~Launched("convert")) =>
            (~ret.ok /\ Contains(ret.error.message,
                "Neither pdfimages nor ImageMagick are available to extract images from PDF"))

\* C28, witness: pdfimages could not be launched, convert made the images
\* and a page was recognised
C28_Witness ==
    /\ Performed
    /\ ~Launched("pdfimages")
    /\ Launched("convert")
    /\ ret.ok
    /\ ret.value # <<>>

\* the error code and the status the mapping fixes for a variant
FixedCode(kind) ==
    CASE kind = "InvalidApiKey" -> "INVALID_API_KEY"
      [] kind = "RateLimitExceeded" -> "RATE_LIMIT_EXCEEDED"
      [] kind = "FileTooLarge" -> "FILE_TOO_LARGE"
      [] kind = "ValidationError" -> "VALIDATION_ERROR"
      [] kind = "ConfigError" -> "CONFIG_ERROR"
      [] OTHER -> "any"

FixedStatus(kind) ==
    CASE kind = "InvalidApiKey" -> 401
      [] kind = "RateLimitExceeded" -> 429
      [] kind = "FileTooLarge" -> 413
      [] kind = "ValidationError" -> 400
      [] kind = "ServiceUnavailable" -> 503
      [] OTHER -> 0

\* the variant a helper constructor is named after
NamedAfter(helper) ==
    CASE helper = "validation" -> "ValidationError"
      [] helper = "config" -> "ConfigError"
      [] helper = "service_unavailable" -> "ServiceUnavailable"
      [] helper = "processing" -> "ProcessingError"
      [] helper = "internal" -> "Internal"

\* C24: error_code and status_code return a value for every variant,
\* different variants have different error codes, the codes and statuses
\* the mapping fixes are returned, and a helper constructor builds the
\* variant of its name with the message it was given.
C24_ErrorMapping ==
    /\ (pc = "mapped" /\ arg.fn = "error_code") =>
            /\ ret \in STRING
            /\ FixedCode(arg.on.kind) # "any" => ret = FixedCode(arg.on.kind)
            /\ \A other \in AppErrors :
                    other.kind # arg.on.kind => error_code(other) # ret
    /\ (pc = "mapped" /\ arg.fn = "status_code") =>
            /\ ret \in 100..599
            /\ FixedStatus(arg.on.kind) # 0 => ret = FixedStatus(arg.on.kind)
    /\ pc = "built" =>
            /\ ret.kind = NamedAfter(arg.fn)
            /\ ret.message = arg.on

\* C24, witness: error_code was applied to an OcrError with a message
C24_Witness ==
    /\ pc = "mapped"
    /\ arg.fn = "error_code"
    /\ arg.on.kind = "OcrError"
    /\ arg.on.message # <<>>
    /\ ret = "OCR_ERROR"

\* the text is an unsigned decimal number the type of the field can hold
IsNumberOf(raw, limit) ==
    /\ raw.some
    /\ raw.value \in {<<48>>, <<49>>, <<43, 49>>, <<55, 48, 48, 48, 48>>}
    /\ ParsedValue(raw.value) <= limit

\* the value of a setting: the environment value when it is set and
\* parses, the default otherwise
SettingValue(raw, limit, default) ==
    IF IsNumberOf(raw, limit)
    THEN (CASE raw.value = <<48>> -> 0
            [] raw.value = <<49>> -> 1
            [] raw.value = <<43, 49>> -> 1
            [] raw.value = <<55, 48, 48, 48, 48>> -> 70000)
    ELSE default

\* the values of the five numeric settings under an environment
SettingValues(raw) ==
    [server_port |-> SettingValue(raw.SERVER_PORT, 65535, 8080),
     max_file_size_mb |-> SettingValue(raw.MAX_FILE_SIZE_MB, 70000, 10),
     max_concurrent_requests |-> SettingValue(raw.MAX_CONCURRENT_REQUESTS, 70000, 100),
     request_timeout_seconds |-> SettingValue(raw.REQUEST_TIMEOUT_SECONDS, 70000, 30),
     worker_threads |-> SettingValue(raw.WORKER_THREADS, 70000, 4)]

HasZero(cfg) == \E field \in DOMAIN cfg : cfg[field] = 0

\* C25: Config::from_env gives each numeric setting the environment value
\* when it is set and parses and the default otherwise, and fails when one
\* of these values is 0; a loaded Config has no zero numeric field.
C25_ConfigFromEnv ==
    pc = "loaded" =>
        /\ ret.ok <=> ~HasZero(SettingValues(arg))
        /\ ret.ok => (ret.value = SettingValues(arg) /\ ~HasZero(ret.value))

\* C25, witness: a Config was loaded with the port unset, the size limit
\* set to 1, the request limit set to a text that does not parse and the
\* worker threads set to a number
C25_Witness ==
    /\ pc = "loaded"
    /\ ~arg.SERVER_PORT.some
    /\ arg.MAX_FILE_SIZE_MB = Some(<<49>>)
    /\ arg.MAX_CONCURRENT_REQUESTS = Some(<<120>>)
    /\ arg.WORKER_THREADS = Some(<<55, 48, 48, 48, 48>>)
    /\ ret.ok
    /\ ret.value.max_file_size_mb = 1
    /\ ret.value.max_concurrent_requests = 100

\* the outcome of a call that runs alone on the input, with the same tool
\* responses
Alone(input) ==
    CASE input.how = "no_temp_file" ->
            Err(AppError("ProcessingError", <<"Failed to create temporary file: ">>))
      [] input.how = "direct" ->
            CallResult(DirectText(<<input.content>>), input.content)
      [] input.how = "ocr" ->
            CallResult(OcrText(ImagesOf(<<input.content>>)), input.content)

\* the paths a call holds: temp_file from its creation to the return of
\* extract_text, pdf_file and temp_dir from their creation to the return
\* of perform_ocr_on_pdf
HeldBy(c) ==
    (IF calls[c].pc \in {"start", "done"} THEN {} ELSE {calls[c].path})
        \cup (IF calls[c].pc \in {"pdf_created", "pdf_written", "dir_created", "images"}
              THEN {calls[c].pdf_path} ELSE {})
        \cup (IF calls[c].pc \in {"dir_created", "images"} THEN {calls[c].dir} ELSE {})

\* C23: under every interleaving of the calls, the outcome of each call is
\* the outcome it has running alone on its input, and no two calls hold
\* the same temporary path.
C23_CallsDoNotInterfere ==
    /\ \A c \in DOMAIN calls :
            calls[c].pc = "done" => calls[c].outcome = Some(Alone(calls[c].input))
    /\ \A c, d \in DOMAIN calls : c # d => HeldBy(c) \cap HeldBy(d) = {}

\* C23, witness: two calls ran OCR side by side, each holding a temp file,
\* a pdf file and an image directory of its own at the same time, and each
\* returned the text of its own document
C23_Witness ==
    /\ \A c \in {1, 2} :
            /\ calls[c].pc = "done"
            /\ calls[c].input.how = "ocr"
            /\ calls[c].outcome = Some(CallResult(<<c, 1>>, c))
    /\ Cardinality({calls[1].path, calls[1].pdf_path, calls[1].dir,
                    calls[2].path, calls[2].pdf_path, calls[2].dir}) = 6

\* the configured ceiling in bytes
Ceiling == arg.max_file_size_mb * MB

\* the request was answered with the given error
AnsweredWith(r, kind) ==
    /\ reqs[r].resp.some
    /\ ~reqs[r].resp.value.ok
    /\ reqs[r].resp.value.error.kind = kind

\* C29: an upload is rejected with FileTooLarge only when its length
\* exceeds MAX_FILE_SIZE_MB * 1024 * 1024 (the ceiling itself is accepted);
\* a file the handler lets through is within the ceiling of the core, and
\* every buffer on which direct extraction starts is non-empty and within
\* the ceiling.
C29_FileTooLargeOnlyOverCeiling ==
    \A r \in DOMAIN reqs :
        /\ AnsweredWith(r, "FileTooLarge") => reqs[r].q.size > Ceiling
        /\ reqs[r].pc = "file" => reqs[r].q.size <= Ceiling
        /\ reqs[r].pc = "extracting" => (reqs[r].q.size > 0 /\ reqs[r].q.size <= Ceiling)

\* the permits requests hold
Held == Cardinality({r \in DOMAIN reqs : reqs[r].permit})

\* C30: at every moment the requests that hold a permit are at most
\* MAX_CONCURRENT_REQUESTS, and the permits held and the permits available
\* add up to this capacity.
C30_PermitsBounded ==
    /\ Held <= arg.max_concurrent_requests
    /\ Held + permits = arg.max_concurrent_requests

\* C30, witness: the capacity is 1, one request holds the permit while its
\* extraction runs, and the other was rejected for want of a permit
C30_Witness ==
    /\ arg.max_concurrent_requests = 1
    /\ permits = 0
    /\ reqs[1].pc = "extracting"
    /\ reqs[1].permit
    /\ AnsweredWith(2, "RateLimitExceeded")
    /\ ~reqs[2].permit

\* every request has been answered
AllAnswered == \A r \in DOMAIN reqs : reqs[r].pc = "done"

\* C31: a request that has been answered holds no permit, whatever the exit
\* path of its handler; once every request has been answered the available
\* permits are the capacity again, and a request that arrives then is
\* granted a permit.
C31_NoPermitLeaks ==
    /\ \A r \in DOMAIN reqs : reqs[r].pc = "done" => ~reqs[r].permit
    /\ AllAnswered =>
            /\ permits = arg.max_concurrent_requests
            /\ try_acquire(permits).granted

\* C31, witness: with one permit, the first request held it and was
\* rejected with FileTooLarge, and the second one was granted it afterwards
\* and answered with the text; the permit is available again
C31_Witness ==
    /\ arg.max_concurrent_requests = 1
    /\ AllAnswered
    /\ AnsweredWith(1, "FileTooLarge")
    /\ reqs[2].resp.some
    /\ reqs[2].resp.value.ok
    /\ permits = 1

\* the request was answered for want of a permit
RateLimited(r) == AnsweredWith(r, "RateLimitExceeded")

\* C32: a request that finds no permit available is answered with
\* RateLimitExceeded (429) in the same step, with the available permits
\* unchanged, and its upload has not been read.
C32_RejectedAtOnce ==
    [][\A r \in DOMAIN reqs :
            (reqs[r].pc = "handler" /\ permits = 0 /\ reqs'[r] # reqs[r]) =>
                /\ reqs'[r].pc = "done"
                /\ reqs'[r].resp = Rejected("RateLimitExceeded")
                /\ status_code(reqs'[r].resp.value.error) = 429
                /\ ~reqs'[r].permit
                /\ permits' = permits
                /\ ~reqs'[r].body_read]_vars

\* C33: in every triple (total, rejected, available) that
\* get_rate_limit_metrics returns, rejected is at most total.
C33_RejectedAtMostTotal ==
    pc = "read" => ret.value[2] <= ret.value[1]

\* the Authorization header is present, starts with "Bearer " and carries
\* a non-empty token that is one of the configured keys
Authorized(header, keys) ==
    /\ header.present
    /\ header.text
    /\ \E token \in keys :
            /\ token # <<>>
            /\ header.value = <<66, 101, 97, 114, 101, 114, 32>> \o token

\* the handler of the request has been called, or something of it has run
HandlerRan(r) ==
    \/ reqs[r].pc \in {"arrived", "handler", "admitted", "file", "extracting"}
    \/ reqs[r].permit
    \/ reqs[r].body_read
    \/ reqs[r].pc = "done" /\ ~AnsweredWith(r, "InvalidApiKey")

\* C34: a handler runs only for a request whose Authorization header is
\* "Bearer " and a configured key; every other request, and every request
\* when no key is configured, is answered with InvalidApiKey (401) with no
\* permit taken, no body read and no extraction started.
C34_OnlyAuthorizedRequestsRun ==
    \A r \in DOMAIN reqs :
        LET keys == VALID_API_KEYS(arg.valid_api_keys)
            authorized == Authorized(reqs[r].authorization, keys)
        IN  /\ HandlerRan(r) => authorized
            /\ keys = {} => ~authorized
            /\ (~authorized /\ reqs[r].pc # "received") =>
                    /\ reqs[r].pc = "done"
                    /\ reqs[r].resp = Rejected("InvalidApiKey")
                    /\ status_code(reqs[r].resp.value.error) = 401
                    /\ ~reqs[r].permit
                    /\ ~reqs[r].body_read
                    /\ permits = arg.max_concurrent_requests

\* C34, witness: with the keys "k" and "j" configured, the request with
\* "Bearer j" went through its handler and was answered with the text
C34_Witness ==
    /\ VALID_API_KEYS(arg.valid_api_keys) = {<<107>>, <<106>>}
    /\ reqs[1].authorization.value = BearerPrefix \o <<106>>
    /\ reqs[1].pc = "done"
    /\ reqs[1].resp.some
    /\ reqs[1].resp.value.ok

\* C35: the text of every successful result has no leading and no trailing
\* whitespace, whichever path returned it.
C35_ResultTextTrimmed ==
    Returned => result.text = Trim(result.text)

\* C35, witness: the direct text was blank, and the result is the OCR text
\* of the empty path, which tesseract ended with a line feed
C35_Witness ==
    /\ Returned
    /\ DirectEmpty
    /\ source = "ocr"
    /\ result.text # <<>>
    /\ result.text = Trim(result.text)

\* the OCR call answered "Tesseract is not installed" (ocr_service.rs 40-45)
NotInstalled(entry) ==
    /\ ~entry.returned.ok
    /\ Contains(entry.returned.error.message, "Tesseract is not installed")

\* extract_text ended in the branch of pdf_processor.rs lines 129-135
RequiresOcrBranch ==
    /\ Done
    /\ result.tag = "err"
    /\ result.error.kind = "ProcessingError"
    /\ result.error.message # <<>>
    /\ result.error.message[1] = "This PDF appears to be scanned and requires OCR. "

\* C36: extract_text_from_pdf runs only on a service OcrService::new gave out,
\* that is after a first availability check that succeeded; it answers
\* "Tesseract is not installed" only when its own availability check differs
\* from that first one, so while availability does not change during a call
\* the error is never returned and the "This PDF appears to be scanned and
\* requires OCR" branch of extract_text is never taken; the branch is taken
\* only in calls where the engine disappeared between the two checks.
C36_NotInstalledOnlyIfEngineDisappears ==
    /\ \A i \in 1..Len(ocr_log) :
          /\ OcrService_new(tesseract).ok
          /\ NotInstalled(ocr_log[i]) => ocr_log[i].available # tesseract
    /\ RequiresOcrBranch => (ocr_log # <<>> /\ ~LastOcr.available /\ tesseract)

\* C36 witness: with the engine present at both checks, extract_text_from_pdf
\* ran on a scanned PDF whose direct text was empty, and answered without the
\* error
C36_Witness ==
    /\ Done
    /\ DirectEmpty
    /\ ocr_log # <<>>
    /\ LastOcr.available = tesseract
    /\ is_likely_scanned_pdf(file.content)
    /\ LastOcr.performed
    /\ ~NotInstalled(LastOcr)
    /\ ~RequiresOcrBranch

\* the branch is taken once the engine disappears between the two checks
C36_BranchTaken == RequiresOcrBranch /\ tesseract /\ ~LastOcr.available

====
